---- MODULE Spec2Model ----
(***************************************************************************)
(* Invoice QC service: the validation rule engine (invoice_qc/validator.py)*)
(* over the record types of invoice_qc/schemas.py.                         *)
(*                                                                         *)
(* Representation.                                                         *)
(*   Optional[T]  a sequence of length <= 1: None is << >>, a present      *)
(*                value v is << v >>.                                      *)
(*   str          a sequence of one-character strings.                     *)
(*   Decimal      an integer number of cents (two-decimal amounts).        *)
(*   date         a triple << year, month, day >>.                         *)
(*   message      the human-readable text of a finding is left out; rule,  *)
(*                field and severity are kept.                             *)
(*                                                                         *)
(* Specifications.                                                         *)
(*   Spec         one validator; callers hand it lists of records through  *)
(*                validate_batch and single records through                *)
(*                validate_invoice, in any order.                          *)
(*   SpecBatches  the same with validate_batch calls alone.                *)
(*   SpecRules    one record, drawn from a field-by-field sweep, checked   *)
(*                by a fresh validator once and again.                     *)
(*   SpecAmounts  _amounts_match applied to a pair of amounts.             *)
(*   SpecSummary  _create_summary applied to a list of results.            *)
(*   SpecBuild    Invoice(...) on a set of field values, then              *)
(*                validate_invoice on the record, if one is built.         *)
(*   SpecExtract  extract_from_directory on a directory of documents.      *)
(*   SpecParseDate  the extractor's _parse_date applied to a token.        *)
(***************************************************************************)
EXTENDS Integers, Sequences, FiniteSets, TLC

VARIABLES
    tolerance,      \* InvoiceValidator.tolerance, a fraction [n, d]
    seen_invoices,  \* InvoiceValidator.seen_invoices, a set of duplicate keys
    today,          \* the value date.today() returns
    op,             \* the last method called on the validator
    invoices,       \* the argument of the last call, as a list of records
    result,         \* Optional: the ValidationResult the last validate_invoice returned
    report,         \* Optional: the ValidationReport the last validate_batch returned
    seen_before,    \* history: seen_invoices when the last call was entered
    amount_a,       \* first argument of the last direct _amounts_match call
    amount_b,       \* second argument of the last direct _amounts_match call
    match,          \* Optional: what the last direct _amounts_match call returned
    invoice_data,   \* Optional: the keyword arguments of the last Invoice(...)
    pdf_dir,        \* the documents of the directory handed to the extractor
    date_str,       \* the token handed to the extractor's _parse_date
    parsed_date,    \* Optional: what the last _parse_date call returned
    op_before,      \* history: the method that had returned when the last call's arguments were built
    requests,       \* the API's requests in flight: endpoint, payload, position, response
    text,           \* the text handed to one of the extractor's parsers
    extracted       \* Optional: what that parser returned

vars == << tolerance, seen_invoices, today, op, invoices, result, report,
           seen_before, amount_a, amount_b, match, invoice_data, pdf_dir,
           date_str, parsed_date, op_before, requests, text, extracted >>

(***************************************************************************)
(* Optional values and Python truthiness                                   *)
(***************************************************************************)
None == << >>

Some(v) == << v >>

IsNone(x) == x = None

Val(x) == x[1]

\* bool(x) of an Optional[str]: None and "" are falsy
TruthyStr(x) == ~IsNone(x) /\ Len(Val(x)) > 0

\* bool(x) of an Optional[Decimal]: None and zero are falsy
TruthyAmount(x) == ~IsNone(x) /\ Val(x) # 0

(***************************************************************************)
(* str.strip() and str.upper(), over the characters the records use: the   *)
(* space is the one whitespace character, "a", "b" and "s" the lower-case  *)
(* letters.                                                                *)
(***************************************************************************)
Whitespace == {" "}

RECURSIVE lstrip(_)
lstrip(s) ==
    IF Len(s) > 0 /\ Head(s) \in Whitespace THEN lstrip(Tail(s)) ELSE s

RECURSIVE rstrip(_)
rstrip(s) ==
    IF Len(s) > 0 /\ s[Len(s)] \in Whitespace
    THEN rstrip(SubSeq(s, 1, Len(s) - 1))
    ELSE s

strip(s) == rstrip(lstrip(s))

upper_char(c) ==
    CASE c = "a" -> "A"
      [] c = "b" -> "B"
      [] c = "s" -> "S"
      [] OTHER -> c

upper(s) == [i \in 1..Len(s) |-> upper_char(s[i])]

(***************************************************************************)
(* datetime.date: ordering, day arithmetic and str()                       *)
(***************************************************************************)
is_leap(y) == (y % 4 = 0) /\ ((y % 100 # 0) \/ (y % 400 = 0))

days_before_year(y) ==
    (y - 1) * 365 + ((y - 1) \div 4) - ((y - 1) \div 100) + ((y - 1) \div 400)

days_in_month(y, m) ==
    CASE m \in {1, 3, 5, 7, 8, 10, 12} -> 31
      [] m \in {4, 6, 9, 11} -> 30
      [] OTHER -> IF is_leap(y) THEN 29 ELSE 28

RECURSIVE days_before_month(_, _)
days_before_month(y, m) ==
    IF m = 1 THEN 0 ELSE days_before_month(y, m - 1) + days_in_month(y, m - 1)

\* date.toordinal(): the day number the date comparisons and timedelta act on
toordinal(d) == days_before_year(d[1]) + days_before_month(d[1], d[2]) + d[3]

Digit(n) ==
    CASE n = 0 -> "0" [] n = 1 -> "1" [] n = 2 -> "2" [] n = 3 -> "3"
      [] n = 4 -> "4" [] n = 5 -> "5" [] n = 6 -> "6" [] n = 7 -> "7"
      [] n = 8 -> "8" [] n = 9 -> "9"

\* n written with exactly w digits, zero padded
RECURSIVE zfill(_, _)
zfill(n, w) ==
    IF w = 0 THEN << >> ELSE Append(zfill(n \div 10, w - 1), Digit(n % 10))

\* str(d) of an Optional[date]: "None", or the ISO form YYYY-MM-DD
str_date(d) ==
    IF IsNone(d)
    THEN << "N", "o", "n", "e" >>
    ELSE zfill(Val(d)[1], 4) \o << "-" >> \o zfill(Val(d)[2], 2)
         \o << "-" >> \o zfill(Val(d)[3], 2)

(***************************************************************************)
(* schemas.py: Currency, LineItem, Invoice                                 *)
(***************************************************************************)
Currency == {"EUR", "USD", "INR", "GBP"}

\* A LineItem; only line_total is read by the validator.
LineItem(line_total) == [line_total |-> line_total]

\* The keyword arguments of Invoice(...) that the validator reads.
InvoiceData(number, seller, buyer, issued, due, cur, net, tax, gross, items, src) ==
    [invoice_number |-> number, seller_name |-> seller, buyer_name |-> buyer,
     invoice_date |-> issued, due_date |-> due, currency |-> cur,
     net_total |-> net, tax_amount |-> tax, gross_total |-> gross,
     line_items |-> items, source_file |-> src]

\* Field(..., ge=0) on an Optional[Decimal]
ge0(x) == IsNone(x) \/ Val(x) >= 0

\* Invoice(**data) builds a record only when the field constraints hold:
\* currency is Optional[Currency], the three totals are ge=0.
Invoice_accepts(data) ==
    /\ IsNone(data.currency) \/ Val(data.currency) \in Currency
    /\ ge0(data.net_total)
    /\ ge0(data.tax_amount)
    /\ ge0(data.gross_total)

(***************************************************************************)
(* schemas.py: ValidationError, ValidationResult                           *)
(***************************************************************************)
ValidationError(rule, field, severity) ==
    [rule |-> rule, field |-> field, severity |-> severity]

ValidationResult(invoice_id, is_valid) ==
    [invoice_id |-> invoice_id, is_valid |-> is_valid,
     errors |-> << >>, warnings |-> << >>]

add_error(res, rule, field) ==
    [res EXCEPT !.errors = Append(@, ValidationError(rule, Some(field), "error")),
                !.is_valid = FALSE]

\* add_warning, were it to clear the validity flag as add_error does.
add_warning_invalidates(res, rule, field) ==
    [res EXCEPT !.warnings =
                    Append(@, ValidationError(rule, Some(field), "warning")),
                !.is_valid = FALSE]

add_warning(res, rule, field) ==
    [res EXCEPT !.warnings =
                    Append(@, ValidationError(rule, Some(field), "warning"))]

(***************************************************************************)
(* validator.py: helper methods                                            *)
(***************************************************************************)
abs(x) == IF x < 0 THEN -x ELSE x

\* A Decimal quotient, the fraction n / d with d > 0.  Decimal rounds a
\* quotient to 28 significant digits; on amounts in cents of the sizes used
\* here that never moves a quotient across the tolerance, so the comparison
\* is the exact one.
Frac(n, d) == [n |-> n, d |-> d]

\* p / q for q > 0
FracDiv(p, q) == Frac(p.n * q.d, p.d * q.n)

\* p <= q
FracLE(p, q) == p.n * q.d <= q.n * p.d

\* Decimal('0.01'), in cents
AbsThreshold == 1

\* InvoiceValidator(tolerance=0.02): Decimal(str(0.02)) is 2/100
DefaultTolerance == Frac(2, 100)

\* _amounts_match, were the difference taken relative to the first amount.
_amounts_match_relative_to_first(amount1, amount2) ==
    IF amount1 = 0 /\ amount2 = 0
    THEN TRUE
    ELSE IF amount1 = 0 \/ amount2 = 0
    THEN abs(amount1 - amount2) < AbsThreshold
    ELSE LET difference == abs(amount1 - amount2)
         IN  FracLE(FracDiv(Frac(difference, 1), Frac(abs(amount1), 1)),
                    tolerance)

\* _amounts_match, were the last comparison < instead of <=.
_amounts_match_strict(amount1, amount2) ==
    IF amount1 = 0 /\ amount2 = 0
    THEN TRUE
    ELSE IF amount1 = 0 \/ amount2 = 0
    THEN abs(amount1 - amount2) < AbsThreshold
    ELSE LET difference == abs(amount1 - amount2)
             avg == FracDiv(Frac(abs(amount1) + abs(amount2), 1), Frac(2, 1))
         IN  ~FracLE(tolerance, FracDiv(Frac(difference, 1), avg))

_amounts_match(amount1, amount2) ==
    IF amount1 = 0 /\ amount2 = 0
    THEN TRUE
    ELSE IF amount1 = 0 \/ amount2 = 0
    THEN abs(amount1 - amount2) < AbsThreshold
    ELSE LET difference == abs(amount1 - amount2)
             avg == FracDiv(Frac(abs(amount1) + abs(amount2), 1), Frac(2, 1))
         IN  FracLE(FracDiv(Frac(difference, 1), avg), tolerance)

\* The call raises, were the division reached whatever the amounts.
_amounts_match_raises_unguarded(amount1, amount2) ==
    LET avg == FracDiv(Frac(abs(amount1) + abs(amount2), 1), Frac(2, 1))
    IN  avg.n = 0

\* The call _amounts_match(amount1, amount2) raises instead of returning:
\* it reaches "difference / avg" with avg = 0 (decimal.DivisionByZero, or
\* decimal.InvalidOperation for 0 / 0).
_amounts_match_raises(amount1, amount2) ==
    IF amount1 = 0 /\ amount2 = 0
    THEN FALSE
    ELSE IF amount1 = 0 \/ amount2 = 0
    THEN FALSE
    ELSE LET avg == FracDiv(Frac(abs(amount1) + abs(amount2), 1), Frac(2, 1))
         IN  avg.n = 0

Days10Years == 3650

Days2Years == 730

_is_reasonable_date(check_date) ==
    LET min_date == toordinal(today) - Days10Years
        max_date == toordinal(today) + Days2Years
    IN  min_date <= toordinal(check_date) /\ toordinal(check_date) <= max_date

(***************************************************************************)
(* validator.py: the four rule groups.  Each takes the record and the      *)
(* result built so far and gives the result with its findings appended.    *)
(***************************************************************************)
\* _validate_completeness, were the five checks one if/elif chain.
_validate_completeness_elif(invoice, res) ==
    IF ~TruthyStr(invoice.invoice_number)
       \/ Len(strip(Val(invoice.invoice_number))) = 0
    THEN add_error(res, "invoice_number_required", "invoice_number")
    ELSE IF IsNone(invoice.invoice_date)
    THEN add_error(res, "invoice_date_required", "invoice_date")
    ELSE IF ~TruthyStr(invoice.seller_name)
            \/ Len(strip(Val(invoice.seller_name))) = 0
    THEN add_error(res, "seller_name_required", "seller_name")
    ELSE IF ~TruthyStr(invoice.buyer_name)
            \/ Len(strip(Val(invoice.buyer_name))) = 0
    THEN add_error(res, "buyer_name_required", "buyer_name")
    ELSE IF IsNone(invoice.gross_total)
    THEN add_error(res, "gross_total_required", "gross_total")
    ELSE res

_validate_completeness(invoice, res) ==
    LET r1 == IF ~TruthyStr(invoice.invoice_number)
                 \/ Len(strip(Val(invoice.invoice_number))) = 0
              THEN add_error(res, "invoice_number_required", "invoice_number")
              ELSE res
        r2 == IF IsNone(invoice.invoice_date)
              THEN add_error(r1, "invoice_date_required", "invoice_date")
              ELSE r1
        r3 == IF ~TruthyStr(invoice.seller_name)
                 \/ Len(strip(Val(invoice.seller_name))) = 0
              THEN add_error(r2, "seller_name_required", "seller_name")
              ELSE r2
        r4 == IF ~TruthyStr(invoice.buyer_name)
                 \/ Len(strip(Val(invoice.buyer_name))) = 0
              THEN add_error(r3, "buyer_name_required", "buyer_name")
              ELSE r3
    IN  IF IsNone(invoice.gross_total)
        THEN add_error(r4, "gross_total_required", "gross_total")
        ELSE r4

_validate_formats(invoice, res) ==
    LET r1 == IF ~IsNone(invoice.currency) /\ Val(invoice.currency) \notin Currency
              THEN add_error(res, "invalid_currency", "currency")
              ELSE res
        r2 == IF ~IsNone(invoice.invoice_date)
                 /\ ~_is_reasonable_date(Val(invoice.invoice_date))
              THEN add_warning(r1, "unreasonable_invoice_date", "invoice_date")
              ELSE r1
    IN  IF ~IsNone(invoice.due_date) /\ ~_is_reasonable_date(Val(invoice.due_date))
        THEN add_warning(r2, "unreasonable_due_date", "due_date")
        ELSE r2

\* sum(item.line_total for item in line_items if item.line_total)
RECURSIVE line_items_sum(_)
line_items_sum(items) ==
    IF items = << >>
    THEN 0
    ELSE (IF TruthyAmount(Head(items).line_total)
          THEN Val(Head(items).line_total)
          ELSE 0) + line_items_sum(Tail(items))

\* Rule 5, were a due date equal to the invoice date refused too.
rule5_date_order_inclusive(invoice, res) ==
    IF /\ ~IsNone(invoice.invoice_date)
       /\ ~IsNone(invoice.due_date)
       /\ toordinal(Val(invoice.due_date)) <= toordinal(Val(invoice.invoice_date))
    THEN add_error(res, "invalid_date_order", "due_date")
    ELSE res

\* Rule 5: due date must be on or after invoice date
rule5_date_order(invoice, res) ==
    IF /\ ~IsNone(invoice.invoice_date)
       /\ ~IsNone(invoice.due_date)
       /\ toordinal(Val(invoice.due_date)) < toordinal(Val(invoice.invoice_date))
    THEN add_error(res, "invalid_date_order", "due_date")
    ELSE res

\* Rule 6, were net + tax compared with gross for equality.
rule6_totals_exact(invoice, res) ==
    IF /\ ~IsNone(invoice.net_total)
       /\ ~IsNone(invoice.tax_amount)
       /\ ~IsNone(invoice.gross_total)
       /\ Val(invoice.net_total) + Val(invoice.tax_amount)
              # Val(invoice.gross_total)
    THEN add_error(res, "totals_mismatch", "gross_total")
    ELSE res

\* Rule 6: net + tax must match gross within the tolerance
rule6_totals_consistency(invoice, res) ==
    IF /\ ~IsNone(invoice.net_total)
       /\ ~IsNone(invoice.tax_amount)
       /\ ~IsNone(invoice.gross_total)
       /\ LET expected_gross == Val(invoice.net_total) + Val(invoice.tax_amount)
          IN  ~_amounts_match(expected_gross, Val(invoice.gross_total))
    THEN add_error(res, "totals_mismatch", "gross_total")
    ELSE res

\* Rule 7, were its finding added with add_error.
rule7_line_items_sum_as_error(invoice, res) ==
    IF /\ Len(invoice.line_items) > 0
       /\ ~IsNone(invoice.net_total)
       /\ line_items_sum(invoice.line_items) > 0
       /\ ~_amounts_match(line_items_sum(invoice.line_items),
                          Val(invoice.net_total))
    THEN add_error(res, "line_items_sum_mismatch", "line_items")
    ELSE res

\* Rule 7: the line items' sum should match net total
rule7_line_items_sum(invoice, res) ==
    IF /\ Len(invoice.line_items) > 0
       /\ ~IsNone(invoice.net_total)
       /\ line_items_sum(invoice.line_items) > 0
       /\ ~_amounts_match(line_items_sum(invoice.line_items),
                          Val(invoice.net_total))
    THEN add_warning(res, "line_items_sum_mismatch", "line_items")
    ELSE res

\* Rule 8: amounts must not be negative
rule8_non_negative_amounts(invoice, res) ==
    LET r1 == IF ~IsNone(invoice.net_total) /\ Val(invoice.net_total) < 0
              THEN add_error(res, "negative_amount", "net_total")
              ELSE res
        r2 == IF ~IsNone(invoice.tax_amount) /\ Val(invoice.tax_amount) < 0
              THEN add_error(r1, "negative_amount", "tax_amount")
              ELSE r1
    IN  IF ~IsNone(invoice.gross_total) /\ Val(invoice.gross_total) < 0
        THEN add_error(r2, "negative_amount", "gross_total")
        ELSE r2

_validate_business_rules(invoice, res) ==
    rule8_non_negative_amounts(invoice,
        rule7_line_items_sum(invoice,
            rule6_totals_consistency(invoice,
                rule5_date_order(invoice, res))))

\* invoice_key, were the invoice number and seller name not upper-cased.
invoice_key_case_sensitive(invoice) ==
    << strip(Val(invoice.invoice_number)),
       strip(Val(invoice.seller_name)),
       str_date(invoice.invoice_date) >>

\* The duplicate key of a record that has an invoice number and a seller name.
invoice_key(invoice) ==
    << upper(strip(Val(invoice.invoice_number))),
       upper(strip(Val(invoice.seller_name))),
       str_date(invoice.invoice_date) >>

\* _validate_anomalies, were a flagged key dropped from the seen-set.
_validate_anomalies_forgets(invoice, res, seen) ==
    IF TruthyStr(invoice.invoice_number) /\ TruthyStr(invoice.seller_name)
    THEN IF invoice_key(invoice) \in seen
         THEN [result |-> add_error(res, "duplicate_invoice", "invoice_number"),
               seen_invoices |-> seen \ {invoice_key(invoice)}]
         ELSE [result |-> res, seen_invoices |-> seen \cup {invoice_key(invoice)}]
    ELSE [result |-> res, seen_invoices |-> seen]

\* _validate_anomalies, were only the keys of valid records recorded.
_validate_anomalies_valid_only(invoice, res, seen) ==
    IF TruthyStr(invoice.invoice_number) /\ TruthyStr(invoice.seller_name)
    THEN IF invoice_key(invoice) \in seen
         THEN [result |-> add_error(res, "duplicate_invoice", "invoice_number"),
               seen_invoices |-> seen]
         ELSE [result |-> res,
               seen_invoices |-> IF res.is_valid
                                 THEN seen \cup {invoice_key(invoice)}
                                 ELSE seen]
    ELSE [result |-> res, seen_invoices |-> seen]

\* _validate_anomalies, were a record that already has errors left out of
\* the duplicate check.
_validate_anomalies_skips_invalid(invoice, res, seen) ==
    IF res.is_valid /\ TruthyStr(invoice.invoice_number)
                    /\ TruthyStr(invoice.seller_name)
    THEN IF invoice_key(invoice) \in seen
         THEN [result |-> add_error(res, "duplicate_invoice", "invoice_number"),
               seen_invoices |-> seen]
         ELSE [result |-> res, seen_invoices |-> seen \cup {invoice_key(invoice)}]
    ELSE [result |-> res, seen_invoices |-> seen]

\* Gives the result and the seen-set after the check.
_validate_anomalies(invoice, res, seen) ==
    IF TruthyStr(invoice.invoice_number) /\ TruthyStr(invoice.seller_name)
    THEN IF invoice_key(invoice) \in seen
         THEN [result |-> add_error(res, "duplicate_invoice", "invoice_number"),
               seen_invoices |-> seen]
         ELSE [result |-> res, seen_invoices |-> seen \cup {invoice_key(invoice)}]
    ELSE [result |-> res, seen_invoices |-> seen]

\* invoice.invoice_number or invoice.source_file or "UNKNOWN"
invoice_id_of(invoice) ==
    IF TruthyStr(invoice.invoice_number) THEN Val(invoice.invoice_number)
    ELSE IF TruthyStr(invoice.source_file) THEN Val(invoice.source_file)
    ELSE << "U", "N", "K", "N", "O", "W", "N" >>

\* validate_invoice, were it to return after the first group that found an
\* error.
validate_invoice_stops_on_error(invoice, seen) ==
    LET r0 == ValidationResult(invoice_id_of(invoice), TRUE)
        r1 == _validate_completeness(invoice, r0)
        r2 == IF r1.is_valid THEN _validate_formats(invoice, r1) ELSE r1
        r3 == IF r2.is_valid THEN _validate_business_rules(invoice, r2) ELSE r2
    IN  IF r3.is_valid
        THEN _validate_anomalies(invoice, r3, seen)
        ELSE [result |-> r3, seen_invoices |-> seen]

\* validate_invoice, were the seen-set cleared at its start as validate_batch
\* clears it.
validate_invoice_clears(invoice, seen) ==
    LET r0 == ValidationResult(invoice_id_of(invoice), TRUE)
        r1 == _validate_completeness(invoice, r0)
        r2 == _validate_formats(invoice, r1)
        r3 == _validate_business_rules(invoice, r2)
    IN  _validate_anomalies(invoice, r3, {})

\* validate_invoice on a validator whose seen-set is `seen`: the result
\* returned and the seen-set left behind.
validate_invoice(invoice, seen) ==
    LET r0 == ValidationResult(invoice_id_of(invoice), TRUE)
        r1 == _validate_completeness(invoice, r0)
        r2 == _validate_formats(invoice, r1)
        r3 == _validate_business_rules(invoice, r2)
    IN  _validate_anomalies(invoice, r3, seen)

(***************************************************************************)
(* validator.py: batch validation and its summary                          *)
(***************************************************************************)
\* f"{rule}: {field}" if field else rule
\* The key, were the field never part of it.
summary_key_rule_only(finding) == finding.rule

summary_key(finding) ==
    IF ~IsNone(finding.field) /\ Val(finding.field) # ""
    THEN finding.rule \o ": " \o Val(finding.field)
    ELSE finding.rule

\* counts[key] = counts.get(key, 0) + 1, for each finding of the list in turn
RECURSIVE count_findings(_, _)
count_findings(findings, counts) ==
    IF findings = << >>
    THEN counts
    ELSE LET key == summary_key(Head(findings))
             bumped == IF key \in DOMAIN counts
                       THEN [counts EXCEPT ![key] = @ + 1]
                       ELSE [k \in DOMAIN counts \cup {key} |->
                                IF k = key THEN 1 ELSE counts[k]]
         IN  count_findings(Tail(findings), bumped)

\* the two frequency tables after the loop over `results`
RECURSIVE count_all(_, _, _)
count_all(results, error_counts, warning_counts) ==
    IF results = << >>
    THEN [error_counts |-> error_counts, warning_counts |-> warning_counts]
    ELSE count_all(Tail(results),
                   count_findings(Head(results).errors, error_counts),
                   count_findings(Head(results).warnings, warning_counts))

\* _create_summary, were a record with any finding counted as not valid.
_create_summary_counts_warnings(results) ==
    LET total == Len(results)
        valid == Cardinality({i \in 1..Len(results) :
                                 /\ results[i].is_valid
                                 /\ Len(results[i].warnings) = 0})
        invalid == total - valid
        with_warnings ==
            Cardinality({i \in 1..Len(results) : Len(results[i].warnings) > 0})
    IN  CHOOSE summary \in
            {[total_invoices |-> total, valid_invoices |-> valid,
              invalid_invoices |-> invalid,
              invoices_with_warnings |-> with_warnings,
              error_counts |-> counts.error_counts,
              warning_counts |-> counts.warning_counts] :
                  counts \in {count_all(results, << >>, << >>)}} : TRUE

_create_summary(results) ==
    LET total == Len(results)
        valid == Cardinality({i \in 1..Len(results) : results[i].is_valid})
        invalid == total - valid
        with_warnings ==
            Cardinality({i \in 1..Len(results) : Len(results[i].warnings) > 0})
    IN  CHOOSE summary \in
            {[total_invoices |-> total, valid_invoices |-> valid,
              invalid_invoices |-> invalid,
              invoices_with_warnings |-> with_warnings,
              error_counts |-> counts.error_counts,
              warning_counts |-> counts.warning_counts] :
                  counts \in {count_all(results, << >>, << >>)}} : TRUE

\* An exception leaves validate_invoice(invoice): one of the _amounts_match
\* calls of rule 6 and rule 7 raises.
validate_invoice_raises(invoice) ==
    \/ /\ ~IsNone(invoice.net_total)
       /\ ~IsNone(invoice.tax_amount)
       /\ ~IsNone(invoice.gross_total)
       /\ _amounts_match_raises(Val(invoice.net_total) + Val(invoice.tax_amount),
                                Val(invoice.gross_total))
    \/ /\ Len(invoice.line_items) > 0
       /\ ~IsNone(invoice.net_total)
       /\ line_items_sum(invoice.line_items) > 0
       /\ _amounts_match_raises(line_items_sum(invoice.line_items),
                                Val(invoice.net_total))

\* The records validate_batch's loop is through with when an exception
\* leaves it.
RECURSIVE before_raise(_)
before_raise(invs) ==
    IF invs = << >> \/ validate_invoice_raises(Head(invs))
    THEN << >>
    ELSE << Head(invs) >> \o before_raise(Tail(invs))

\* for invoice in invoices: results.append(self.validate_invoice(invoice))
RECURSIVE validate_each(_, _, _)
validate_each(invs, seen, results) ==
    IF invs = << >>
    THEN [results |-> results, seen_invoices |-> seen]
    ELSE CHOOSE out \in
             {validate_each(Tail(invs), one.seen_invoices,
                            Append(results, one.result)) :
                  one \in {validate_invoice(Head(invs), seen)}} : TRUE

\* validate_batch, were the seen-set not cleared first.
validate_batch_without_clear(invs, seen) ==
    CHOOSE out \in
        {[report |-> [summary |-> _create_summary(run.results),
                      results |-> run.results],
          seen_invoices |-> run.seen_invoices] :
              run \in {validate_each(invs, seen, << >>)}} : TRUE

\* validate_batch on a validator whose seen-set is `seen`: the report
\* returned (generated_at left out) and the seen-set left behind.
validate_batch(invs, seen) ==
    LET cleared == {}
    IN  CHOOSE out \in
            {[report |-> [summary |-> _create_summary(run.results),
                          results |-> run.results],
              seen_invoices |-> run.seen_invoices] :
                  run \in {validate_each(invs, cleared, << >>)}} : TRUE

(***************************************************************************)
(* Inputs                                                                  *)
(***************************************************************************)
\* Longest list handed to validate_batch.
MaxBatch == 3

\* Largest amount, in cents, handed to _amounts_match directly.
MaxCents == 101

\* Largest net total and tax amount, in cents, of the swept totals.
MaxTotal == 12

\* Readings of the clock.
Todays == {<< 2024, 6, 1 >>}

\* Tolerances a validator is built with: the default 0.02, 0.05 and 0.
Tolerances == {DefaultTolerance, Frac(5, 100), Frac(0, 100)}

IssueDate == << 2024, 1, 25 >>

\* Records of the batches.  P1 is complete.  P2 has P1's duplicate key in
\* another case and with surrounding whitespace, another gross total and no
\* buyer.  P3 is P1 without an invoice date.  P4 has another invoice number
\* and a due date far in the future.  P5 has no invoice number.
P1 == InvoiceData(Some(<< "a" >>), Some(<< "s" >>), Some(<< "b" >>),
                  Some(IssueDate), None, Some("EUR"), None, None, Some(11900),
                  << >>, None)

P2 == InvoiceData(Some(<< " ", "A" >>), Some(<< "S", " " >>), None,
                  Some(IssueDate), None, Some("EUR"), None, None, Some(20000),
                  << >>, None)

P3 == [P1 EXCEPT !.invoice_date = None]

P4 == [P1 EXCEPT !.invoice_number = Some(<< "b" >>),
                 !.due_date = Some(<< 2030, 1, 1 >>)]

P5 == [P1 EXCEPT !.invoice_number = None, !.source_file = Some(<< "f" >>)]

BatchPool == {data \in {P1, P2, P3, P4, P5} : Invoice_accepts(data)}

\* All lists of at most n records of the pool.
RECURSIVE ListsUpTo(_)
ListsUpTo(n) ==
    IF n = 0
    THEN {<< >>}
    ELSE LET shorter == ListsUpTo(n - 1)
         IN  shorter \cup {Append(l, data) : l \in shorter, data \in BatchPool}

Batches == ListsUpTo(MaxBatch)

NumberValues == {None, Some(<< >>), Some(<< " " >>), Some(<< "a" >>)}

SellerValues == {None, Some(<< " " >>), Some(<< "s" >>)}

BuyerValues == {None, Some(<< " " >>), Some(<< "b" >>)}

IssueDateValues == {None, Some(IssueDate), Some(<< 2010, 1, 1 >>)}

DueDateValues ==
    {None, Some(<< 2024, 1, 10 >>), Some(IssueDate), Some(<< 2030, 1, 1 >>)}

CurrencyValues == {None, Some("EUR"), Some("XXX")}

\* << net_total, tax_amount, gross_total >>
TotalsValues ==
    {<< None, None, None >>, << None, None, Some(11900) >>,
     << Some(10000), Some(1900), Some(11900) >>,
     << Some(10000), Some(1900), Some(11901) >>,
     << Some(10000), Some(1900), Some(12500) >>,
     << Some(50), Some(51), Some(99) >>, << Some(50), Some(51), Some(98) >>,
     << Some(-10000), None, Some(-10000) >>, << Some(0), Some(0), Some(0) >>}

LineItemsValues ==
    {<< >>, << LineItem(Some(5000)), LineItem(Some(3000)) >>,
     << LineItem(None), LineItem(Some(10000)) >>,
     << LineItem(None), LineItem(Some(0)) >>}

\* Records that vary field by field.
FieldRecords ==
    {InvoiceData(n, s, b, i, d, c, t[1], t[2], t[3], l, None) :
        n \in NumberValues, s \in SellerValues, b \in BuyerValues,
        i \in IssueDateValues, d \in DueDateValues, c \in CurrencyValues,
        t \in TotalsValues, l \in LineItemsValues}

OptCents(lo, hi) == {None} \cup {Some(v) : v \in lo..hi}

\* Otherwise complete records whose three totals sweep a range of cents.
TotalsRecords ==
    {[P1 EXCEPT !.net_total = n, !.tax_amount = t, !.gross_total = g] :
        n \in OptCents(-1, MaxTotal), t \in OptCents(-1, MaxTotal),
        g \in OptCents(-1, 2 * MaxTotal + 1)}

\* Dates on both sides of ten years before and two years after the clock's
\* reading, in years and in days of 365 to the year.
BoundaryDates ==
    {<< 2014, 5, 31 >>, << 2014, 6, 1 >>, << 2014, 6, 3 >>, << 2014, 6, 4 >>,
     << 2026, 6, 1 >>, << 2026, 6, 2 >>}

\* Otherwise complete records whose two dates sweep the boundary dates.
DateRecords ==
    {[P1 EXCEPT !.invoice_date = i, !.due_date = d] :
        i \in {Some(x) : x \in BoundaryDates},
        d \in {None} \cup {Some(x) : x \in BoundaryDates}}

\* The records Invoice(**data) builds out of the data above.
RuleInvoices ==
    {data \in FieldRecords \cup TotalsRecords \cup DateRecords :
        Invoice_accepts(data)}

(***************************************************************************)
(* The validator object and its calls.  A caller builds a list of records  *)
(* (op = "args") and hands it to validate_batch or, a single record, to    *)
(* validate_invoice; op then names the method that returned.  A value      *)
(* bound by "\E x \in {e}" or "CHOOSE .. : x \in {e}" is e computed once.  *)
(***************************************************************************)
\* InvoiceValidator(): tolerance 0.02, an empty seen-set, nothing called yet.
Init ==
    /\ tolerance = DefaultTolerance
    /\ seen_invoices = {}
    /\ today \in Todays
    /\ op = "__init__"
    /\ invoices = << >>
    /\ result = None
    /\ report = None
    /\ seen_before = {}
    /\ amount_a = 0
    /\ amount_b = 0
    /\ match = None
    /\ invoice_data = None
    /\ pdf_dir = << >>
    /\ date_str = << >>
    /\ parsed_date = None
    /\ op_before = "__init__"
    /\ requests = << >>
    /\ text = << >>
    /\ extracted = None

\* invoices = [Invoice(**data) for data in invoices_data]
Receive(invs) ==
    /\ op # "args"
    /\ op' = "args"
    /\ invoices' = invs
    /\ result' = None
    /\ report' = None
    /\ seen_before' = seen_invoices
    /\ UNCHANGED << tolerance, seen_invoices, today, amount_a, amount_b, match,
                    invoice_data, pdf_dir, date_str, parsed_date, op_before,
                    requests, text, extracted >>

\* report = validator.validate_batch(invoices); op = "raised" when an
\* exception leaves the call instead of a report.
ValidateBatch ==
    /\ op = "args"
    /\ IF \E i \in 1..Len(invoices) : validate_invoice_raises(invoices[i])
       THEN /\ seen_invoices'
                  = validate_each(before_raise(invoices), {}, << >>).seen_invoices
            /\ report' = report
            /\ op' = "raised"
       ELSE /\ \E out \in {validate_batch(invoices, seen_invoices)} :
                /\ seen_invoices' = out.seen_invoices
                /\ report' = Some(out.report)
            /\ op' = "validate_batch"
    /\ seen_before' = seen_invoices
    /\ UNCHANGED << tolerance, today, invoices, result, amount_a, amount_b,
                    match, invoice_data,
                    pdf_dir, date_str, parsed_date, op_before, requests,
                    text, extracted >>

\* result = validator.validate_invoice(invoice); op = "raised" when an
\* exception leaves the call instead of a result.
ValidateInvoice ==
    /\ op = "args"
    /\ Len(invoices) = 1
    /\ IF validate_invoice_raises(invoices[1])
       THEN /\ UNCHANGED << seen_invoices, result >>
            /\ op' = "raised"
       ELSE /\ \E out \in {validate_invoice(invoices[1], seen_invoices)} :
                /\ seen_invoices' = out.seen_invoices
                /\ result' = Some(out.result)
            /\ op' = "validate_invoice"
    /\ seen_before' = seen_invoices
    /\ UNCHANGED << tolerance, today, invoices, report, amount_a, amount_b,
                    match, invoice_data,
                    pdf_dir, date_str, parsed_date, op_before, requests,
                    text, extracted >>

ReceiveBatch == \E invs \in Batches : Receive(invs)

Next == ReceiveBatch \/ ValidateBatch \/ ValidateInvoice

Spec == Init /\ [][Next]_vars

\* Nothing but validate_batch calls, one after the other.
NextBatches == ReceiveBatch \/ ValidateBatch

SpecBatches == Init /\ [][NextBatches]_vars

\* The longest list of a call whose predecessor is remembered.
MaxCallBatch == 2

\* The arguments of the next call on the same validator, the method that
\* returned last remembered in op_before.
ReceiveCall ==
    \E invs \in ListsUpTo(MaxCallBatch) :
        /\ op # "args"
        /\ op' = "args"
        /\ invoices' = invs
        /\ result' = None
        /\ report' = None
        /\ seen_before' = seen_invoices
        /\ op_before' = op
        /\ UNCHANGED << tolerance, seen_invoices, today, amount_a, amount_b,
                        match, invoice_data, pdf_dir, date_str, parsed_date,
                        requests, text, extracted >>

\* validate_batch and validate_invoice calls in any order on one validator.
NextCalls == ReceiveCall \/ ValidateBatch \/ ValidateInvoice

SpecCalls == Init /\ [][NextCalls]_vars

(***************************************************************************)
(* One record at a time: a fresh validator, built with any of the           *)
(* tolerances, is handed one record, as often as the caller likes, through *)
(* either method.                                                          *)
(***************************************************************************)
InitRules ==
    /\ tolerance \in Tolerances
    /\ seen_invoices = {}
    /\ today \in Todays
    /\ op = "args"
    /\ \E inv \in RuleInvoices : invoices = << inv >>
    /\ result = None
    /\ report = None
    /\ seen_before = {}
    /\ amount_a = 0
    /\ amount_b = 0
    /\ match = None
    /\ invoice_data = None
    /\ pdf_dir = << >>
    /\ date_str = << >>
    /\ parsed_date = None
    /\ op_before = "__init__"
    /\ requests = << >>
    /\ text = << >>
    /\ extracted = None

ReceiveAgain == Receive(invoices)

NextRules == ReceiveAgain \/ ValidateBatch \/ ValidateInvoice

SpecRules == InitRules /\ [][NextRules]_vars

(***************************************************************************)
(* _amounts_match applied to two amounts                                   *)
(***************************************************************************)
InitAmounts ==
    /\ tolerance \in Tolerances
    /\ seen_invoices = {}
    /\ today \in Todays
    /\ op = "args"
    /\ invoices = << >>
    /\ result = None
    /\ report = None
    /\ seen_before = {}
    /\ amount_a \in -MaxCents..MaxCents
    /\ amount_b \in -MaxCents..MaxCents
    /\ match = None
    /\ invoice_data = None
    /\ pdf_dir = << >>
    /\ date_str = << >>
    /\ parsed_date = None
    /\ op_before = "__init__"
    /\ requests = << >>
    /\ text = << >>
    /\ extracted = None

\* self._amounts_match(amount_a, amount_b)
AmountsMatch ==
    /\ op = "args"
    /\ op' = "_amounts_match"
    /\ match' = Some(_amounts_match(amount_a, amount_b))
    /\ UNCHANGED << tolerance, seen_invoices, today, invoices, result, report,
                    seen_before, amount_a, amount_b, invoice_data,
                    pdf_dir, date_str, parsed_date, op_before, requests,
                    text, extracted >>

NextAmounts == AmountsMatch

SpecAmounts == InitAmounts /\ [][NextAmounts]_vars

(***************************************************************************)
(* _create_summary applied to a list of results.  add_error and            *)
(* add_warning take the field as an optional argument, so a finding may    *)
(* come without one.                                                       *)
(***************************************************************************)
\* Longest list of results summarised.
MaxResults == 2

\* Longest list of errors in one result.
MaxErrors == 2

ErrorPool ==
    {ValidationError("duplicate_invoice", None, "error"),
     ValidationError("negative_amount", Some("net_total"), "error")}

WarningPool ==
    {ValidationError("line_items_sum_mismatch", None, "warning"),
     ValidationError("line_items_sum_mismatch", Some("line_items"), "warning")}

\* All lists of at most n elements of pool.
RECURSIVE ListsOf(_, _)
ListsOf(pool, n) ==
    IF n = 0
    THEN {<< >>}
    ELSE LET shorter == ListsOf(pool, n - 1)
         IN  shorter \cup {Append(l, x) : l \in shorter, x \in pool}

\* Results as add_error and add_warning leave them: valid when without
\* errors.
ResultPool ==
    {[invoice_id |-> << "a" >>, is_valid |-> errs = << >>, errors |-> errs,
      warnings |-> warns] :
        errs \in ListsOf(ErrorPool, MaxErrors), warns \in ListsOf(WarningPool, 1)}

InitSummary ==
    /\ tolerance = DefaultTolerance
    /\ seen_invoices = {}
    /\ today \in Todays
    /\ op = "args"
    /\ invoices = << >>
    /\ result = None
    /\ report = None
    /\ seen_before = {}
    /\ amount_a = 0
    /\ amount_b = 0
    /\ match = None
    /\ invoice_data = None
    /\ pdf_dir = << >>
    /\ date_str = << >>
    /\ parsed_date = None
    /\ op_before = "__init__"
    /\ requests = << >>
    /\ text = << >>
    /\ extracted = None

\* summary = self._create_summary(results);
\* ValidationReport(summary=summary, results=results)
CreateSummary ==
    /\ op = "args"
    /\ \E rs \in ListsOf(ResultPool, MaxResults) :
        \E out \in {_create_summary(rs)} :
            report' = Some([summary |-> out, results |-> rs])
    /\ op' = "_create_summary"
    /\ UNCHANGED << tolerance, seen_invoices, today, invoices, result,
                    seen_before, amount_a, amount_b, match, invoice_data,
                    pdf_dir, date_str, parsed_date, op_before, requests,
                    text, extracted >>

NextSummary == CreateSummary

SpecSummary == InitSummary /\ [][NextSummary]_vars

(***************************************************************************)
(* From keyword arguments to a result: a caller holds the field values of  *)
(* a record (op = "data"), builds the record with Invoice(...) and hands   *)
(* it to validate_invoice of a default validator.  Invoice(...) raises     *)
(* pydantic's ValidationError (op = "ValidationError") when a field        *)
(* constraint fails, and the caller then has no record to validate.        *)
(***************************************************************************)
\* The field values callers pass to Invoice(...).
InvoiceInputs == FieldRecords \cup TotalsRecords

InitBuild ==
    /\ tolerance = DefaultTolerance
    /\ seen_invoices = {}
    /\ today \in Todays
    /\ op = "data"
    /\ invoices = << >>
    /\ result = None
    /\ report = None
    /\ seen_before = {}
    /\ amount_a = 0
    /\ amount_b = 0
    /\ match = None
    /\ \E data \in InvoiceInputs : invoice_data = Some(data)
    /\ pdf_dir = << >>
    /\ date_str = << >>
    /\ parsed_date = None
    /\ op_before = "__init__"
    /\ requests = << >>
    /\ text = << >>
    /\ extracted = None

\* invoice = Invoice(**invoice_data)
BuildInvoice ==
    /\ op = "data"
    /\ IF Invoice_accepts(Val(invoice_data))
       THEN /\ invoices' = << Val(invoice_data) >>
            /\ op' = "args"
       ELSE /\ invoices' = invoices
            /\ op' = "ValidationError"
    /\ UNCHANGED << tolerance, seen_invoices, today, result, report,
                    seen_before, amount_a, amount_b, match, invoice_data,
                    pdf_dir, date_str, parsed_date, op_before, requests,
                    text, extracted >>

NextBuild == BuildInvoice \/ ValidateInvoice

SpecBuild == InitBuild /\ [][NextBuild]_vars

(***************************************************************************)
(* extractor.py: a directory of documents.  A document is what pdfplumber  *)
(* and the text parsers make of one file:                                  *)
(*   opens         pdfplumber.open succeeds (it raises otherwise)          *)
(*   pages         per page: raises "extract_text" or "extract_tables"     *)
(*                 when that call raises on the page, "" when none does;   *)
(*                 the line items of its tables; the line items its text   *)
(*                 lines yield                                             *)
(*   parse_raises  an exception leaves _parse_invoice_text                 *)
(*   data          the fields _parse_invoice_text returns otherwise        *)
(***************************************************************************)
\* Most documents in a directory.
MaxDocs == 2

\* Most pages in a document.
MaxPages == 2

Page(raises, tables, lines) ==
    [raises |-> raises, tables |-> tables, lines |-> lines]

\* Pages whose text can be read: one with a table of one item, one with a
\* text line of one item, one on which extract_tables raises.
PagePool ==
    {Page("", << LineItem(Some(5000)) >>, << >>),
     Page("", << >>, << LineItem(Some(3000)) >>),
     Page("extract_tables", << >>, << >>)}

Doc(opens, pages, parse_raises, data) ==
    [opens |-> opens, pages |-> pages, parse_raises |-> parse_raises,
     data |-> data]

\* Documents of readable pages with P1's fields; a document with P3's
\* fields; a file that does not open; a document with a page whose text
\* cannot be read; a document whose text parser raises.
DocPool ==
    {Doc(TRUE, pages, FALSE, P1) : pages \in ListsOf(PagePool, MaxPages)}
    \cup {Doc(TRUE, << >>, FALSE, P3),
          Doc(FALSE, << >>, FALSE, P1),
          Doc(TRUE, << Page("extract_text", << >>, << >>) >>, FALSE, P1),
          Doc(TRUE, << >>, TRUE, P1)}

Directories == ListsOf(DocPool, MaxDocs)

\* pdf_file.name of the i-th file that pdf_dir.glob("*.pdf") yields
pdf_name(i) == << Digit(i), ".", "p", "d", "f" >>

\* Strategy 1 of _extract_line_items: the tables' items page by page, up to
\* a page on which extract_tables raises.
RECURSIVE table_items(_, _)
table_items(pages, line_items) ==
    IF pages = << >>
    THEN [line_items |-> line_items, raised |-> FALSE]
    ELSE IF Head(pages).raises = "extract_tables"
    THEN [line_items |-> line_items, raised |-> TRUE]
    ELSE table_items(Tail(pages), line_items \o Head(pages).tables)

\* Strategy 2 of _extract_line_items: the items of the text lines of all
\* pages.
RECURSIVE text_items(_)
text_items(pages) ==
    IF pages = << >>
    THEN << >>
    ELSE Head(pages).lines \o text_items(Tail(pages))

\* _extract_line_items: its own "except Exception" ends the scan and the
\* items gathered so far are returned.
_extract_line_items(pages) ==
    LET strategy1 == table_items(pages, << >>)
    IN  IF strategy1.raised
        THEN strategy1.line_items
        ELSE IF strategy1.line_items # << >>
        THEN strategy1.line_items
        ELSE text_items(pages)

\* extract_from_pdf: the record, or None when an exception reaches its
\* "except Exception".
extract_from_pdf(doc, name) ==
    IF ~doc.opens
    THEN None
    ELSE IF \E i \in 1..Len(doc.pages) : doc.pages[i].raises = "extract_text"
    THEN None
    ELSE IF doc.parse_raises
    THEN None
    ELSE LET parsed == [doc.data EXCEPT !.source_file = Some(name)]
             line_items == _extract_line_items(doc.pages)
             data == IF line_items # << >>
                     THEN [parsed EXCEPT !.line_items = line_items]
                     ELSE parsed
         IN  IF Invoice_accepts(data) THEN Some(data) ELSE None

\* extract_from_directory, were the loop left at the first document that
\* fails.
RECURSIVE extract_from_directory_stops(_, _, _)
extract_from_directory_stops(docs, i, found) ==
    IF i > Len(docs)
    THEN found
    ELSE LET invoice == extract_from_pdf(docs[i], pdf_name(i))
         IN  IF IsNone(invoice)
             THEN found
             ELSE extract_from_directory_stops(docs, i + 1,
                                               Append(found, Val(invoice)))

\* extract_from_directory from its i-th file on, `found` being the records
\* appended so far.
RECURSIVE extract_from_directory(_, _, _)
extract_from_directory(docs, i, found) ==
    IF i > Len(docs)
    THEN found
    ELSE LET invoice == extract_from_pdf(docs[i], pdf_name(i))
         IN  extract_from_directory(docs, i + 1,
                                    IF IsNone(invoice)
                                    THEN found
                                    ELSE Append(found, Val(invoice)))

InitExtract ==
    /\ tolerance = DefaultTolerance
    /\ seen_invoices = {}
    /\ today \in Todays
    /\ op = "pdf_dir"
    /\ invoices = << >>
    /\ result = None
    /\ report = None
    /\ seen_before = {}
    /\ amount_a = 0
    /\ amount_b = 0
    /\ match = None
    /\ invoice_data = None
    /\ pdf_dir \in Directories
    /\ date_str = << >>
    /\ parsed_date = None
    /\ op_before = "__init__"
    /\ requests = << >>
    /\ text = << >>
    /\ extracted = None

\* invoices = extractor.extract_from_directory(pdf_dir)
ExtractFromDirectory ==
    /\ op = "pdf_dir"
    /\ invoices' = extract_from_directory(pdf_dir, 1, << >>)
    /\ op' = "extract_from_directory"
    /\ UNCHANGED << tolerance, seen_invoices, today, result, report,
                    seen_before, amount_a, amount_b, match, invoice_data,
                    pdf_dir, date_str, parsed_date, op_before, requests,
                    text, extracted >>

NextExtract == ExtractFromDirectory

SpecExtract == InitExtract /\ [][NextExtract]_vars

(***************************************************************************)
(* extractor.py: _parse_date.  A token is a sequence of characters; a      *)
(* layout is a sequence of strptime directives and literal characters.     *)
(***************************************************************************)
DigitChars == {"0", "1", "2", "3", "4", "5", "6", "7", "8", "9"}

digit_value(c) ==
    CASE c = "0" -> 0 [] c = "1" -> 1 [] c = "2" -> 2 [] c = "3" -> 3
      [] c = "4" -> 4 [] c = "5" -> 5 [] c = "6" -> 6 [] c = "7" -> 7
      [] c = "8" -> 8 [] c = "9" -> 9

\* int(s) of a run of digits
RECURSIVE int_of(_)
int_of(s) ==
    IF s = << >>
    THEN 0
    ELSE 10 * int_of(SubSeq(s, 1, Len(s) - 1)) + digit_value(s[Len(s)])

\* The length of the run of digits s starts with.
RECURSIVE digit_run(_)
digit_run(s) ==
    IF s = << >> \/ Head(s) \notin DigitChars THEN 0 ELSE 1 + digit_run(Tail(s))

Directives == {"%d", "%m", "%Y"}

\* The digits a directive's pattern matches when what follows them is not
\* a digit: %d is a day 1..31 and %m a month 1..12 in one or two digits, %Y
\* a year in exactly four.
directive_matches(directive, digits) ==
    CASE directive = "%d" -> Len(digits) \in {1, 2} /\ int_of(digits) \in 1..31
      [] directive = "%m" -> Len(digits) \in {1, 2} /\ int_of(digits) \in 1..12
      [] directive = "%Y" -> Len(digits) = 4

\* The match of the layout's pattern against the whole of s: the fields
\* found, or None ("does not match format", "unconverted data remains").
RECURSIVE strptime_fields(_, _, _)
strptime_fields(s, format, found) ==
    IF format = << >>
    THEN IF s = << >> THEN Some(found) ELSE None
    ELSE IF Head(format) \in Directives
    THEN LET n == digit_run(s)
         IN  IF directive_matches(Head(format), SubSeq(s, 1, n))
             THEN strptime_fields(SubSeq(s, n + 1, Len(s)), Tail(format),
                                  [found EXCEPT ![Head(format)] =
                                                    int_of(SubSeq(s, 1, n))])
             ELSE None
    ELSE IF s # << >> /\ Head(s) = Head(format)
    THEN strptime_fields(Tail(s), Tail(format), found)
    ELSE None

\* datetime.strptime(date_string, format).date(): the date, or None for
\* ValueError (no match, year 0, or a day the month does not have).
strptime(date_string, format) ==
    LET found == strptime_fields(date_string, format,
                                 [directive \in Directives |-> 0])
    IN  IF IsNone(found)
        THEN None
        ELSE LET year == Val(found)["%Y"]
                 month == Val(found)["%m"]
                 day == Val(found)["%d"]
             IN  IF year >= 1 /\ day <= days_in_month(year, month)
                 THEN Some(<< year, month, day >>)
                 ELSE None

\* The layouts, were each month-first layout tried before its day-first
\* one.
date_formats_month_first ==
    << << "%m", ".", "%d", ".", "%Y" >>, << "%d", ".", "%m", ".", "%Y" >>,
       << "%Y", "-", "%m", "-", "%d" >>, << "%d", "-", "%m", "-", "%Y" >>,
       << "%m", "/", "%d", "/", "%Y" >>, << "%d", "/", "%m", "/", "%Y" >> >>

date_formats ==
    << << "%d", ".", "%m", ".", "%Y" >>, << "%m", ".", "%d", ".", "%Y" >>,
       << "%Y", "-", "%m", "-", "%d" >>, << "%d", "-", "%m", "-", "%Y" >>,
       << "%d", "/", "%m", "/", "%Y" >>, << "%m", "/", "%d", "/", "%Y" >> >>

\* The loop of _parse_date from the i-th layout on.
RECURSIVE try_formats(_, _)
try_formats(s, i) ==
    IF i > Len(date_formats)
    THEN None
    ELSE LET parsed == strptime(s, date_formats[i])
         IN  IF IsNone(parsed)
             THEN try_formats(s, i + 1)
             ELSE Some(str_date(parsed))

\* _parse_date: the ISO text of the date, or None.
_parse_date(s) == try_formats(s, 1)

Separators == {".", "/", "-"}

\* The digits of the first two fields and of the year field of the tokens.
ShortFields ==
    {<< "3" >>, << "0", "3" >>, << "0", "4" >>, << "0", "5" >>, << "2", "3" >>,
     << "1", "2" >>, << "3", "1" >>, << "2", "9" >>, << "0", "2" >>,
     << "0", "0" >>, << "2", "0", "2", "1" >>}

YearFields ==
    {<< "2", "1" >>, << "0", "2", "1" >>, << "2", "0", "2", "1" >>,
     << "2", "0", "2", "0" >>, << "0", "0", "0", "0" >>, << "0", "4" >>,
     << "2", "0", "2", "1", "5" >>}

\* Tokens of three runs of digits around two separators.
Tokens ==
    {a \o << s1 >> \o b \o << s2 >> \o c :
        a \in ShortFields, s1 \in Separators, b \in ShortFields,
        s2 \in Separators, c \in YearFields}

InitParseDate ==
    /\ tolerance = DefaultTolerance
    /\ seen_invoices = {}
    /\ today \in Todays
    /\ op = "date_str"
    /\ invoices = << >>
    /\ result = None
    /\ report = None
    /\ seen_before = {}
    /\ amount_a = 0
    /\ amount_b = 0
    /\ match = None
    /\ invoice_data = None
    /\ pdf_dir = << >>
    /\ date_str \in Tokens
    /\ parsed_date = None
    /\ op_before = "__init__"
    /\ requests = << >>
    /\ text = << >>
    /\ extracted = None

\* self._parse_date(date_str)
ParseDate ==
    /\ op = "date_str"
    /\ parsed_date' = _parse_date(date_str)
    /\ op' = "_parse_date"
    /\ UNCHANGED << tolerance, seen_invoices, today, invoices, result, report,
                    seen_before, amount_a, amount_b, match, invoice_data,
                    pdf_dir, date_str, op_before, requests, text, extracted >>

NextParseDate == ParseDate

SpecParseDate == InitParseDate /\ [][NextParseDate]_vars

(***************************************************************************)
(* Two records in one list: a fresh validator is handed a first record     *)
(* that varies in the fields of the duplicate key and a second one that    *)
(* varies in every field the validator reads.                              *)
(***************************************************************************)
\* P1 as it is, without a buyer, with a due date before the invoice date, and
\* with totals that do not add up.
PairFlaws ==
    {P1, [P1 EXCEPT !.buyer_name = None],
     [P1 EXCEPT !.due_date = Some(<< 2024, 1, 10 >>)],
     [P1 EXCEPT !.net_total = Some(10000), !.tax_amount = Some(1900),
                !.gross_total = Some(12500)]}

PairFirst ==
    {[base EXCEPT !.invoice_number = n, !.seller_name = s, !.invoice_date = d] :
        base \in PairFlaws,
        n \in {Some(<< "a" >>), Some(<< " ", "A" >>), Some(<< " " >>)},
        s \in {Some(<< "s" >>), Some(<< "S", " " >>)},
        d \in {None, Some(IssueDate)}}

PairSecond ==
    {InvoiceData(n, s, b, d, None, c, None, None, g, << >>, f) :
        n \in NumberValues
                 \cup {Some(<< " ", "A" >>), Some(<< "a", " " >>), Some(<< "b" >>)},
        s \in SellerValues \cup {Some(<< "S", " " >>), Some(<< "b" >>)},
        b \in {None, Some(<< "b" >>)},
        d \in {None, Some(IssueDate), Some(<< 2024, 1, 26 >>)},
        c \in {Some("EUR"), Some("USD")},
        g \in {Some(11900), Some(20000)},
        f \in {None, Some(<< "f" >>)}}

\* The lists [Invoice(**first), Invoice(**second)].
Pairs ==
    {<< first, second >> :
        first \in {data \in PairFirst : Invoice_accepts(data)},
        second \in {data \in PairSecond : Invoice_accepts(data)}}

InitPairs ==
    /\ tolerance = DefaultTolerance
    /\ seen_invoices = {}
    /\ today \in Todays
    /\ op = "args"
    /\ invoices \in Pairs
    /\ result = None
    /\ report = None
    /\ seen_before = {}
    /\ amount_a = 0
    /\ amount_b = 0
    /\ match = None
    /\ invoice_data = None
    /\ pdf_dir = << >>
    /\ date_str = << >>
    /\ parsed_date = None
    /\ op_before = "__init__"
    /\ requests = << >>
    /\ text = << >>
    /\ extracted = None

NextPairs == ValidateBatch

SpecPairs == InitPairs /\ [][NextPairs]_vars

(***************************************************************************)
(* api/main.py: the two POST endpoints.  One validator and one extractor,  *)
(* built when the module is loaded, serve every request.  A request is     *)
(* posted (pc = "received"), its handler runs on the event loop, in one    *)
(* turn or in several (pc = "running" in between), and the response is     *)
(* sent (pc = "responded"); the handlers of the requests in flight take    *)
(* their turns in any order.  requests[r].invoices is the list handed to   *)
(* validate_batch: the body of /validate-json, the records extracted for   *)
(* /extract-and-validate-pdfs.                                             *)
(***************************************************************************)
\* Requests in flight at one time.
MaxRequests == 2

RequestIds == 1..MaxRequests

\* An uploaded file: whether its name ends in ".pdf", and what it holds.
Upload(is_pdf, doc) == [is_pdf |-> is_pdf, doc |-> doc]

\* Bodies of POST /validate-json: the empty list, one record, two records
\* of one key, two records of two keys.
JsonPayloads == {<< >>, << P1 >>, << P1, P2 >>, << P4, P1 >>}

\* Uploads of POST /extract-and-validate-pdfs: one invoice, two invoices of
\* one key, a file that is not a PDF, a PDF that does not open.  FastAPI
\* answers a request without files itself, File(...) being required.
PdfPayloads ==
    {<< Upload(TRUE, Doc(TRUE, << >>, FALSE, P1)) >>,
     << Upload(TRUE, Doc(TRUE, << >>, FALSE, P1)),
        Upload(TRUE, Doc(TRUE, << >>, FALSE, P2)) >>,
     << Upload(FALSE, Doc(TRUE, << >>, FALSE, P1)) >>,
     << Upload(TRUE, Doc(FALSE, << >>, FALSE, P1)) >>}

\* What the client gets: the status code, the detail of an HTTPException,
\* the validation report of a 200 (None where the handler returns none).
Response(status_code, detail, validation_report) ==
    [status_code |-> status_code, detail |-> detail,
     validation_report |-> validation_report]

Request(pc, endpoint, invs, files, done, results, response) ==
    [pc |-> pc, endpoint |-> endpoint, invoices |-> invs, files |-> files,
     done |-> done, results |-> results, response |-> response]

NoRequest == Request("idle", "", << >>, << >>, 0, << >>, None)

\* The records validate_batch is through with when the handler's coroutine
\* hands the event loop back, were each record awaited.
turn_length_one_record(invs) == 1

\* The records validate_batch is through with when the handler's coroutine
\* hands the event loop back: the handlers are "async def" without an await
\* and validate_batch is an ordinary call, so the whole list.
turn_length(invs) == Len(invs)

\* except Exception as e: raise HTTPException(status_code=500, ...) of
\* /validate-json, around everything the handler does, the HTTPException
\* it raises itself included; str(e) of an HTTPException is
\* "<status_code>: <detail>".
validate_invoices_except(raised) ==
    IF raised.status_code = 400
    THEN Response(500, "Validation error: 400: No invoices provided", None)
    ELSE Response(500, "Validation error", None)

\* /validate-json with an empty list: raise HTTPException(400, ...) inside
\* the try, which the handler's own except clause catches.
validate_invoices_empty(invs) ==
    validate_invoices_except(Response(400, "No invoices provided", None))

\* A turn of validate_batch for request r: the records of the turn are
\* validated against the validator's seen-set; after the last one the
\* summary is made and the report returned.
ValidateTurn(r, req, seen) ==
    LET left == Len(req.invoices) - req.done
        turn == IF turn_length(req.invoices) < left
                THEN turn_length(req.invoices)
                ELSE left
    IN  \E run \in {validate_each(SubSeq(req.invoices, req.done + 1,
                                         req.done + turn),
                                  seen, req.results)} :
            /\ seen_invoices' = run.seen_invoices
            /\ requests' =
                   [requests EXCEPT ![r] =
                        IF req.done + turn = Len(req.invoices)
                        THEN [req EXCEPT
                                 !.pc = "responded",
                                 !.done = req.done + turn,
                                 !.results = run.results,
                                 !.response =
                                     Some(Response(200, "",
                                         Some([summary |-> _create_summary(run.results),
                                               results |-> run.results])))]
                        ELSE [req EXCEPT !.pc = "running",
                                         !.done = req.done + turn,
                                         !.results = run.results]]

\* The handler answers without a call of validate_batch.
Respond(r, response) ==
    /\ requests' = [requests EXCEPT ![r].pc = "responded",
                                    ![r].response = Some(response)]
    /\ UNCHANGED seen_invoices

\* validate_invoices(invoices), from its first line.
validate_invoices(r) ==
    LET req == requests[r]
    IN  IF req.invoices = << >>
        THEN Respond(r, validate_invoices_empty(req.invoices))
        ELSE ValidateTurn(r, req, {})

\* extract_and_validate_pdfs(files), from its first line.
extract_and_validate_pdfs(r) ==
    LET req == requests[r]
        docs == [i \in 1..Len(req.files) |-> req.files[i].doc]
    IN  IF req.files = << >>
        THEN Respond(r, Response(400, "No files provided", None))
        ELSE IF \E i \in 1..Len(req.files) : ~req.files[i].is_pdf
        THEN Respond(r, Response(400, "File is not a PDF", None))
        ELSE \E found \in {extract_from_directory(docs, 1, << >>)} :
                 IF found = << >>
                 THEN Respond(r, Response(200,
                          "No invoices could be extracted from the provided PDFs",
                          None))
                 ELSE ValidateTurn(r, [req EXCEPT !.invoices = found], {})

InitApi ==
    /\ tolerance = DefaultTolerance
    /\ seen_invoices = {}
    /\ today \in Todays
    /\ op = "__init__"
    /\ invoices = << >>
    /\ result = None
    /\ report = None
    /\ seen_before = {}
    /\ amount_a = 0
    /\ amount_b = 0
    /\ match = None
    /\ invoice_data = None
    /\ pdf_dir = << >>
    /\ date_str = << >>
    /\ parsed_date = None
    /\ op_before = "__init__"
    /\ requests = [r \in RequestIds |-> NoRequest]
    /\ text = << >>
    /\ extracted = None

ApiUnchanged ==
    UNCHANGED << tolerance, today, op, invoices, result, report, seen_before,
                 amount_a, amount_b, match, invoice_data, pdf_dir, date_str,
                 parsed_date, op_before, text, extracted >>

\* A client posts a list of invoices.
PostValidateJson(r) ==
    /\ requests[r].pc \in {"idle", "responded"}
    /\ \E invs \in JsonPayloads :
           requests' = [requests EXCEPT ![r] =
               Request("received", "/validate-json", invs, << >>, 0, << >>, None)]
    /\ UNCHANGED seen_invoices
    /\ ApiUnchanged

\* A client posts files.
PostExtractAndValidatePdfs(r) ==
    /\ requests[r].pc \in {"idle", "responded"}
    /\ \E files \in PdfPayloads :
           requests' = [requests EXCEPT ![r] =
               Request("received", "/extract-and-validate-pdfs", << >>, files,
                       0, << >>, None)]
    /\ UNCHANGED seen_invoices
    /\ ApiUnchanged

\* The event loop gives the handler of request r its next turn.
RunHandler(r) ==
    /\ requests[r].pc \in {"received", "running"}
    /\ IF requests[r].pc = "running"
       THEN ValidateTurn(r, requests[r], seen_invoices)
       ELSE IF requests[r].endpoint = "/validate-json"
       THEN validate_invoices(r)
       ELSE extract_and_validate_pdfs(r)
    /\ ApiUnchanged

NextApi ==
    \E r \in RequestIds :
        PostValidateJson(r) \/ PostExtractAndValidatePdfs(r) \/ RunHandler(r)

SpecApi == InitApi /\ [][NextApi]_vars

(***************************************************************************)
(* extractor.py: clean_number, the cleaner of monetary tokens.  A Decimal  *)
(* is its coefficient and its exponent, [coef |-> 12345, exp |-> -2] for   *)
(* Decimal("123.45"); str(Decimal) follows decimal.Decimal.__str__.        *)
(***************************************************************************)
Decimal(coef, exp) == [coef |-> coef, exp |-> exp]

\* str(n) of a non-negative int
RECURSIVE str_int(_)
str_int(n) ==
    IF n < 10 THEN << Digit(n) >> ELSE Append(str_int(n \div 10), Digit(n % 10))

\* n zeros
zeros(n) == [i \in 1..n |-> "0"]

\* The characters of s that are in `keep`, in order.
RECURSIVE keep_chars(_, _)
keep_chars(s, keep) ==
    IF s = << >>
    THEN << >>
    ELSE IF Head(s) \in keep
    THEN << Head(s) >> \o keep_chars(Tail(s), keep)
    ELSE keep_chars(Tail(s), keep)

\* Decimal(cleaned) of a string of digits and dots: digits around at most
\* one dot, one digit at least; None stands for InvalidOperation.
Decimal_of(cleaned) ==
    LET dots == {i \in 1..Len(cleaned) : cleaned[i] = "."}
    IN  IF Cardinality(dots) > 1 \/ Cardinality(dots) = Len(cleaned)
        THEN None
        ELSE IF dots = {}
        THEN Some(Decimal(int_of(cleaned), 0))
        ELSE LET dot == CHOOSE i \in dots : TRUE
                 intpart == SubSeq(cleaned, 1, dot - 1)
                 fracpart == SubSeq(cleaned, dot + 1, Len(cleaned))
             IN  Some(Decimal(int_of(intpart \o fracpart), -Len(fracpart)))

\* str(d) of a Decimal that is not negative and whose exponent is not
\* positive: plain notation while the first digit is no further right than
\* the sixth decimal place, scientific notation beyond.
str_decimal(d) ==
    LET digits == str_int(d.coef)
        leftdigits == d.exp + Len(digits)
    IN  IF leftdigits > -6
        THEN IF leftdigits <= 0
             THEN << "0", "." >> \o zeros(-leftdigits) \o digits
             ELSE IF leftdigits >= Len(digits)
             THEN digits
             ELSE SubSeq(digits, 1, leftdigits) \o << "." >>
                  \o SubSeq(digits, leftdigits + 1, Len(digits))
        ELSE << Head(digits) >>
             \o (IF Len(digits) > 1 THEN << "." >> \o Tail(digits) ELSE << >>)
             \o << "E", "-" >> \o str_int(1 - leftdigits)

\* clean_number(s): commas and everything that is neither a digit nor a dot
\* are removed, and what is left is handed to Decimal(); None for no token
\* and for a string Decimal() does not take.
clean_number(s) ==
    IF s = << >>
    THEN None
    ELSE Decimal_of(keep_chars(s, DigitChars \cup {"."}))

\* str(x) of an Optional[Decimal]
str_amount(x) ==
    IF IsNone(x) THEN << "N", "o", "n", "e" >> ELSE str_decimal(Val(x))

\* What may stand before the digits of a token, the digits before the dot,
\* and the dot with what follows it.
TokenSymbols ==
    {<< >>, << "$" >>}

TokenIntegers ==
    {<< >>, << "0" >>, << "1" >>, << "1", "2" >>, << "1", ",", "2" >>,
     << "0", "0", "7" >>}

TokenFractions ==
    {<< >>, << "." >>, << ".", "5" >>, << ".", "5", "0" >>,
     << ".", "0", "0", "0", "0", "0", "1" >>,
     << ".", "0", "0", "0", "0", "0", "0", "1" >>,
     << ".", "0", "0", "0", "0", "0", "0", "0" >>, << ".", "1", ".", "2" >>}

NumberTokens ==
    {symbol \o integer \o fraction :
        symbol \in TokenSymbols, integer \in TokenIntegers,
        fraction \in TokenFractions}

(***************************************************************************)
(* The two normalizers, each applied to one token.                         *)
(***************************************************************************)
InitNormalize ==
    /\ tolerance = DefaultTolerance
    /\ seen_invoices = {}
    /\ today \in Todays
    /\ \/ op = "date_str" /\ date_str \in Tokens /\ text = << >>
       \/ op = "s" /\ date_str = << >> /\ text \in NumberTokens
    /\ invoices = << >>
    /\ result = None
    /\ report = None
    /\ seen_before = {}
    /\ amount_a = 0
    /\ amount_b = 0
    /\ match = None
    /\ invoice_data = None
    /\ pdf_dir = << >>
    /\ parsed_date = None
    /\ op_before = "__init__"
    /\ requests = << >>
    /\ extracted = None

\* clean_number(text)
CleanNumber ==
    /\ op = "s"
    /\ extracted' = clean_number(text)
    /\ op' = "clean_number"
    /\ UNCHANGED << tolerance, seen_invoices, today, invoices, result, report,
                    seen_before, amount_a, amount_b, match, invoice_data,
                    pdf_dir, date_str, parsed_date, op_before, requests,
                    text >>

NextNormalize == ParseDate \/ CleanNumber

SpecNormalize == InitNormalize /\ [][NextNormalize]_vars

(***************************************************************************)
(* extractor.py: _extract_amounts.  The text of a document is a list of    *)
(* lines, each a label in capitals and a monetary token, "TOTAL DUE 100.00"*)
(* being [label |-> "TOTAL DUE", token |-> "100.00"] with both strings     *)
(* spelled out; a pattern of the form key \s* [:$]? \s* ([\d,\.]+) matches *)
(* in a line exactly when the label ends with the key.                     *)
(***************************************************************************)
\* Most lines in a document.
MaxLines == 3

Line(label, token) == [label |-> label, token |-> token]

TOTAL_DUE == << "T", "O", "T", "A", "L", " ", "D", "U", "E" >>
AMOUNT_DUE == << "A", "M", "O", "U", "N", "T", " ", "D", "U", "E" >>
TOTAL_PAYABLE ==
    << "T", "O", "T", "A", "L", " ", "P", "A", "Y", "A", "B", "L", "E" >>
GRAND_TOTAL == << "G", "R", "A", "N", "D", " ", "T", "O", "T", "A", "L" >>
TOTAL == << "T", "O", "T", "A", "L" >>
SUBTOTAL == << "S", "U", "B", "T", "O", "T", "A", "L" >>
SUB_TOTAL == << "S", "U", "B", " ", "T", "O", "T", "A", "L" >>
NET_TOTAL == << "N", "E", "T", " ", "T", "O", "T", "A", "L" >>
SALES_TAX == << "S", "A", "L", "E", "S", " ", "T", "A", "X" >>
TAX == << "T", "A", "X" >>
VAT == << "V", "A", "T" >>
TOTAL_TAX == << "T", "O", "T", "A", "L", " ", "T", "A", "X" >>

\* find_value(["TOTAL DUE", "AMOUNT DUE", "TOTAL PAYABLE", "GRAND TOTAL"])
gross_keys == << TOTAL_DUE, AMOUNT_DUE, TOTAL_PAYABLE, GRAND_TOTAL >>

\* find_value(["SUBTOTAL", "SUB TOTAL", "NET TOTAL"])
net_keys == << SUBTOTAL, SUB_TOTAL, NET_TOTAL >>

\* find_value(["SALES TAX", "TAX", "VAT", "TOTAL TAX"])
tax_keys == << SALES_TAX, TAX, VAT, TOTAL_TAX >>

\* The labels of the lines and their tokens.
Labels ==
    {TOTAL_DUE, AMOUNT_DUE, TOTAL_PAYABLE, GRAND_TOTAL, TOTAL, SUBTOTAL, TAX}

AmountTokens ==
    {<< "1", "0", "0", ".", "0", "0" >>, << "2", "0", "0", ".", "0", "0" >>,
     << "0", ".", "0", "0" >>}

LinePool == {Line(label, token) : label \in Labels, token \in AmountTokens}

Documents == ListsOf(LinePool, MaxLines)

\* s ends with the characters of key
EndsWith(s, key) ==
    /\ Len(key) <= Len(s)
    /\ SubSeq(s, Len(s) - Len(key) + 1, Len(s)) = key

\* \b before the key at the end of s: the key starts the line or follows a
\* character that is not a letter.
AtWordStart(s, key) == Len(s) = Len(key) \/ s[Len(s) - Len(key)] = " "

\* re.finditer(pattern, text): the lines in which the alternation of all
\* the keys is followed by a number, in the order of the text.
RECURSIVE finditer(_, _)
finditer(keys, lines) ==
    IF lines = << >>
    THEN << >>
    ELSE IF \E i \in 1..Len(keys) : EndsWith(Head(lines).label, keys[i])
    THEN << Head(lines) >> \o finditer(keys, Tail(lines))
    ELSE finditer(keys, Tail(lines))

\* find_value(keys): the pattern of every turn of the loop over the keys is
\* the alternation of all the keys, so the first turn settles it: the last
\* match of any key, cleaned.
find_value(keys, lines) ==
    IF keys = << >>
    THEN None
    ELSE LET matches == finditer(keys, lines)
         IN  IF matches # << >>
             THEN clean_number(matches[Len(matches)].token)
             ELSE None

\* re.search(r"\bTOTAL\s*[:$]?\s*([\d,\.]+)", text): the first line whose
\* label ends with the word TOTAL, as a list of one line or none.
RECURSIVE search_total(_)
search_total(lines) ==
    IF lines = << >>
    THEN << >>
    ELSE IF /\ EndsWith(Head(lines).label, TOTAL)
            /\ AtWordStart(Head(lines).label, TOTAL)
    THEN << Head(lines) >>
    ELSE search_total(Tail(lines))

\* bool(x) of an Optional[Decimal]: None and zero are falsy
TruthyDecimal(x) == ~IsNone(x) /\ Val(x).coef # 0

\* d1 - d2 of two Decimals
decimal_sub(d1, d2) ==
    IF d1.exp <= d2.exp
    THEN Decimal(d1.coef - d2.coef * 10^(d2.exp - d1.exp), d1.exp)
    ELSE Decimal(d1.coef * 10^(d1.exp - d2.exp) - d2.coef, d2.exp)

\* _extract_amounts(text): the three totals of the data it returns, None
\* for a key that is missing or holds None.
_extract_amounts(lines) ==
    LET gross == find_value(gross_keys, lines)
        sub == find_value(net_keys, lines)
        tax == find_value(tax_keys, lines)
        fallback == search_total(lines)
        gross_total == IF TruthyDecimal(gross)
                       THEN gross
                       ELSE IF fallback # << >>
                       THEN clean_number(fallback[1].token)
                       ELSE None
        net_total == IF TruthyDecimal(sub) THEN sub ELSE None
        tax_amount == IF TruthyDecimal(tax) THEN tax ELSE None
    IN  [gross_total |-> gross_total,
         net_total |-> IF /\ TruthyDecimal(gross_total)
                          /\ TruthyDecimal(tax_amount)
                          /\ ~TruthyDecimal(net_total)
                       THEN Some(decimal_sub(Val(gross_total), Val(tax_amount)))
                       ELSE net_total,
         tax_amount |-> tax_amount]

InitAmountsText ==
    /\ tolerance = DefaultTolerance
    /\ seen_invoices = {}
    /\ today \in Todays
    /\ op = "text"
    /\ invoices = << >>
    /\ result = None
    /\ report = None
    /\ seen_before = {}
    /\ amount_a = 0
    /\ amount_b = 0
    /\ match = None
    /\ invoice_data = None
    /\ pdf_dir = << >>
    /\ date_str = << >>
    /\ parsed_date = None
    /\ op_before = "__init__"
    /\ requests = << >>
    /\ text \in Documents
    /\ extracted = None

\* amounts = self._extract_amounts(text)
ExtractAmounts ==
    /\ op = "text"
    /\ extracted' = Some(_extract_amounts(text))
    /\ op' = "_extract_amounts"
    /\ UNCHANGED << tolerance, seen_invoices, today, invoices, result, report,
                    seen_before, amount_a, amount_b, match, invoice_data,
                    pdf_dir, date_str, parsed_date, op_before, requests,
                    text >>

NextAmountsText == ExtractAmounts

SpecAmountsText == InitAmountsText /\ [][NextAmountsText]_vars

(***************************************************************************)
(* InvoiceExtractor._extract_parties: seller header and buyer block        *)
(***************************************************************************)
\* The longest text the model reads, in lines.
MaxTextLines == 4

ascii_lowercase ==
    << "a", "b", "c", "d", "e", "f", "g", "h", "i", "j", "k", "l", "m",
       "n", "o", "p", "q", "r", "s", "t", "u", "v", "w", "x", "y", "z" >>

ascii_uppercase ==
    << "A", "B", "C", "D", "E", "F", "G", "H", "I", "J", "K", "L", "M",
       "N", "O", "P", "Q", "R", "S", "T", "U", "V", "W", "X", "Y", "Z" >>

\* re.IGNORECASE: a character compared without its case.
ignorecase(c) ==
    IF \E i \in 1..26 : ascii_lowercase[i] = c
    THEN ascii_uppercase[CHOOSE i \in 1..26 : ascii_lowercase[i] = c]
    ELSE c

\* \w of the regular expressions.
word_char(c) ==
    \/ \E i \in 1..26 : ascii_uppercase[i] = ignorecase(c)
    \/ c \in {"0", "1", "2", "3", "4", "5", "6", "7", "8", "9", "_"}

\* \b at the 0-based position i of s.
word_boundary(s, i) ==
    (i > 0 /\ word_char(s[i])) # (i < Len(s) /\ word_char(s[i + 1]))

\* The literal key matches s at the 0-based position i, whatever the case.
literal_at(s, i, key) ==
    /\ i + Len(key) <= Len(s)
    /\ \A k \in 1..Len(key) : ignorecase(s[i + k]) = key[k]

\* re.search(key, s, re.IGNORECASE) of a literal key.
search(key, s) == \E i \in 0..Len(s) : literal_at(s, i, key)

least(S) == CHOOSE x \in S : \A y \in S : x <= y

\* s[start:stop] of a Python str, indices 0-based, negative ones from the end.
slice(s, start, stop) ==
    LET n == Len(s)
        a == IF start < 0 THEN (IF n + start < 0 THEN 0 ELSE n + start)
             ELSE (IF start > n THEN n ELSE start)
        b == IF stop < 0 THEN (IF n + stop < 0 THEN 0 ELSE n + stop)
             ELSE (IF stop > n THEN n ELSE stop)
    IN SubSeq(s, a + 1, b)

\* str.find(c, start): the 0-based index of the first c at or after start,
\* -1 when there is none.
find(s, c, start) ==
    LET hits == {j \in start..(Len(s) - 1) : s[j + 1] = c}
    IN IF hits = {} THEN -1 ELSE least(hits)

\* str.split(sep) on a one-character separator.
RECURSIVE split(_, _)
split(s, sep) ==
    LET j == find(s, sep, 0)
    IN IF j = -1
       THEN << s >>
       ELSE << SubSeq(s, 1, j) >> \o split(SubSeq(s, j + 2, Len(s)), sep)

\* sep.join(parts)
RECURSIVE join(_, _)
join(sep, parts) ==
    IF parts = << >>
    THEN << >>
    ELSE IF Len(parts) = 1
    THEN parts[1]
    ELSE parts[1] \o sep \o join(sep, Tail(parts))

\* str.strip(chars)
RECURSIVE strip_chars(_, _)
strip_chars(s, chars) ==
    IF Len(s) > 0 /\ Head(s) \in chars
    THEN strip_chars(Tail(s), chars)
    ELSE IF Len(s) > 0 /\ s[Len(s)] \in chars
    THEN strip_chars(SubSeq(s, 1, Len(s) - 1), chars)
    ELSE s

TO == << "T", "O" >>
BILL_TO == << "B", "I", "L", "L", " ", "T", "O" >>
SHIP_TO == << "S", "H", "I", "P", " ", "T", "O" >>
SOLD_TO == << "S", "O", "L", "D", " ", "T", "O" >>
BILLED_TO == << "B", "I", "L", "L", "E", "D", " ", "T", "O" >>
CUSTOMER == << "C", "U", "S", "T", "O", "M", "E", "R" >>
INVOICE == << "I", "N", "V", "O", "I", "C", "E" >>
TAX_INVOICE == << "T", "A", "X", " " >> \o INVOICE
CREDIT_NOTE == << "C", "R", "E", "D", "I", "T", " ", "N", "O", "T", "E" >>
DATE == << "D", "A", "T", "E" >>
PAGE == << "P", "A", "G", "E" >>
DETAILS == << "D", "E", "T", "A", "I", "L", "S" >>
QUANTITY == << "Q", "U", "A", "N", "T", "I", "T", "Y" >>
DESCRIPTION ==
    << "D", "E", "S", "C", "R", "I", "P", "T", "I", "O", "N" >>
ITEM == << "I", "T", "E", "M" >>
PAYMENT == << "P", "A", "Y", "M", "E", "N", "T" >>
NUMBER == << "N", "U", "M", "B", "E", "R" >>

\* r"^INVOICE\s*(?:#|NO|NUMBER)" searched in a line.
invoice_number_header(line) ==
    /\ literal_at(line, 0, INVOICE)
    /\ LET rest == lstrip(SubSeq(line, 8, Len(line)))
       IN \/ literal_at(rest, 0, << "#" >>)
          \/ literal_at(rest, 0, << "N", "O" >>)
          \/ literal_at(rest, 0, NUMBER)

\* any(re.search(p, line, re.IGNORECASE) for p in header_stop_patterns)
header_stop(line) ==
    \/ \E k \in {TO, BILL_TO, SHIP_TO, SOLD_TO, BILLED_TO} :
           literal_at(line, 0, k \o << ":" >>)
    \/ invoice_number_header(line)
    \/ literal_at(line, 0, DATE \o << ":" >>)
    \/ literal_at(line, 0, PAGE)
    \/ literal_at(line, 0, DETAILS)

\* re.match(r"^(?:INVOICE|TAX INVOICE|CREDIT NOTE)$", line, re.IGNORECASE)
document_title(line) ==
    \E k \in {INVOICE, TAX_INVOICE, CREDIT_NOTE} :
        Len(line) = Len(k) /\ literal_at(line, 0, k)

\* The loop over lines[:20]: the stripped lines of the header up to the
\* first stop section, blank lines and document titles left out.
RECURSIVE seller_lines(_)
seller_lines(lines) ==
    IF lines = << >>
    THEN << >>
    ELSE LET line == strip(Head(lines))
         IN IF line = << >> \/ document_title(line)
            THEN seller_lines(Tail(lines))
            ELSE IF header_stop(line)
            THEN << >>
            ELSE << line >> \o seller_lines(Tail(lines))

\* re.search(r"INVOICE\s*#", l, re.IGNORECASE)
invoice_hash(l) ==
    \E i \in 0..Len(l) :
        /\ literal_at(l, i, INVOICE)
        /\ literal_at(lstrip(SubSeq(l, i + 8, Len(l))), 0, << "#" >>)

\* The seller lines without those that hold an invoice number.
cleaned_seller_lines(lines) ==
    SelectSeq(seller_lines(slice(lines, 0, 20)), LAMBDA l : ~invoice_hash(l))

\* One alternative of buyer_keywords matches s at the 0-based position i.
buyer_keyword_at(s, i, k) ==
    /\ literal_at(s, i, k)
    /\ k = TO => (word_boundary(s, i) /\ word_boundary(s, i + Len(k)))

\* The alternatives of buyer_keywords, in the order of the pattern.
buyer_keywords == << TO, BILL_TO, SOLD_TO, BILLED_TO, CUSTOMER >>

\* matches[0].end() of re.finditer(buyer_keywords, text, re.IGNORECASE): the
\* leftmost match, by the first alternative that matches there; None
\* when the pattern matches nowhere.
match_end(s) ==
    LET at(i) == {a \in 1..Len(buyer_keywords) :
                      buyer_keyword_at(s, i, buyer_keywords[a])}
        hits == {i \in 0..Len(s) : at(i) # {}}
    IN IF hits = {}
       THEN None
       ELSE Some(least(hits) + Len(buyer_keywords[least(at(least(hits)))]))

\* The stop keywords of the buyer block (other sections).
stop_keywords ==
    {SHIP_TO, INVOICE, DATE, QUANTITY, DESCRIPTION, ITEM, TOTAL, PAYMENT}

\* The loop over chunk_lines: the stripped lines are collected up to a stop
\* keyword, or up to a blank line once a candidate is held.
RECURSIVE scan_chunk(_, _)
scan_chunk(chunk_lines, buyer_candidates) ==
    IF chunk_lines = << >>
    THEN buyer_candidates
    ELSE LET line == strip(Head(chunk_lines))
         IN IF line = << >>
            THEN IF buyer_candidates # << >>
                 THEN buyer_candidates
                 ELSE scan_chunk(Tail(chunk_lines), buyer_candidates)
            ELSE IF \E k \in stop_keywords : search(k, line)
            THEN buyer_candidates
            ELSE scan_chunk(Tail(chunk_lines),
                            Append(buyer_candidates, line))

\* The candidates of the buyer block whose trigger ends at start_idx.
buyer_block(s, start_idx) ==
    LET next_newline == find(s, "\n", start_idx)
        same_line_content ==
            strip_chars(slice(s, start_idx, next_newline),
                        {" ", ":", "-", "\t"})
        search_start ==
            IF same_line_content # << >> THEN next_newline ELSE start_idx
        chunk == slice(s, search_start, search_start + 500)
    IN scan_chunk(split(chunk, "\n"),
                  IF same_line_content # << >>
                  THEN << same_line_content >>
                  ELSE << >>)

\* _extract_parties(text): the four fields of the result, None for a key the
\* dictionary does not hold.
_extract_parties(s) ==
    LET sellers == cleaned_seller_lines(split(s, "\n"))
        buyers == IF IsNone(match_end(s))
                  THEN << >>
                  ELSE buyer_block(s, Val(match_end(s)))
    IN [seller_name |-> IF sellers # << >> THEN Some(sellers[1]) ELSE None,
        seller_address |->
            IF Len(sellers) > 1
            THEN Some(join(<< " " >>, slice(sellers, 1, 4)))
            ELSE None,
        buyer_name |-> IF buyers # << >> THEN Some(buyers[1]) ELSE None,
        buyer_address |->
            IF Len(buyers) > 1
            THEN Some(join(<< " " >>, Tail(buyers)))
            ELSE None]

\* Lines of the text of an invoice: a seller line, trigger lines with and
\* without a name or a separator after the trigger, name and address lines,
\* an empty and a blank line, and a line with a stop keyword.
TextLines ==
    {<< "A", "C", "M", "E", " ", "L", "t", "d" >>,
     << "B", "i", "l", "l", " ", "T", "o", ":", " ", "B", "o", "b" >>,
     << "B", "I", "L", "L", " ", "T", "O" >>,
     << "B", "I", "L", "L", " ", "T", "O", ":" >>,
     << "S", "o", "l", "d", " ", "t", "o", " ", "A", "l" >>,
     << "B", "o", "b" >>,
     << "1", " ", "R", "d" >>,
     << >>,
     << " " >>,
     << "D", "a", "t", "e", ":", " ", "1" >>}

\* full_text += extracted + "\n": the lines of the pages, a newline after
\* each of them.
RECURSIVE full_text(_)
full_text(lines) ==
    IF lines = << >>
    THEN << >>
    ELSE Head(lines) \o << "\n" >> \o full_text(Tail(lines))

Texts == {full_text(lines) : lines \in ListsOf(TextLines, MaxTextLines)}

InitParties ==
    /\ tolerance = DefaultTolerance
    /\ seen_invoices = {}
    /\ today \in Todays
    /\ op = "text"
    /\ invoices = << >>
    /\ result = None
    /\ report = None
    /\ seen_before = {}
    /\ amount_a = 0
    /\ amount_b = 0
    /\ match = None
    /\ invoice_data = None
    /\ pdf_dir = << >>
    /\ date_str = << >>
    /\ parsed_date = None
    /\ op_before = "__init__"
    /\ requests = << >>
    /\ text \in Texts
    /\ extracted = None

\* parties = self._extract_parties(text)
ExtractParties ==
    /\ op = "text"
    /\ extracted' = Some(_extract_parties(text))
    /\ op' = "_extract_parties"
    /\ UNCHANGED << tolerance, seen_invoices, today, invoices, result, report,
                    seen_before, amount_a, amount_b, match, invoice_data,
                    pdf_dir, date_str, parsed_date, op_before, requests,
                    text >>

NextParties == ExtractParties

SpecParties == InitParties /\ [][NextParties]_vars

(***************************************************************************)
(* InvoiceExtractor._extract_line_items, cell by cell.  A table is a        *)
(* sequence of rows and a row a sequence of cells; a cell is a string, the  *)
(* empty one also standing for None, which the code reads as "".  A float   *)
(* is held as the coefficient and exponent of its shortest decimal form.    *)
(***************************************************************************)
\* The most data rows of a table.
MaxRows == 2

PRODUCT == << "P", "R", "O", "D", "U", "C", "T" >>
QTY == << "Q", "T", "Y" >>
COUNT == << "C", "O", "U", "N", "T" >>
UNIT_PRICE == << "U", "N", "I", "T", " ", "P", "R", "I", "C", "E" >>
PRICE == << "P", "R", "I", "C", "E" >>
RATE == << "R", "A", "T", "E" >>
COST == << "C", "O", "S", "T" >>
UNIT == << "U", "N", "I", "T" >>
AMOUNT == << "A", "M", "O", "U", "N", "T" >>
EXTENSION == << "E", "X", "T", "E", "N", "S", "I", "O", "N" >>

\* s.replace(old, new) of one character by another
replace(s, old, new) == [i \in 1..Len(s) |-> IF s[i] = old THEN new ELSE s[i]]

\* s.replace(c, '')
remove(s, c) == SelectSeq(s, LAMBDA x : x # c)

\* The shortest form of a decimal: no zero at the end of the fraction.
RECURSIVE shortest(_, _)
shortest(coef, exp) ==
    IF coef = 0
    THEN Decimal(0, 0)
    ELSE IF exp < 0 /\ coef % 10 = 0
    THEN shortest(coef \div 10, exp + 1)
    ELSE Decimal(coef, exp)

\* float(s) of a stripped string: a sign at most, then digits around at most
\* one dot, one digit at least; None stands for ValueError.
float(s) ==
    LET signed == s # << >> /\ Head(s) \in {"+", "-"}
        body == IF signed THEN Tail(s) ELSE s
        d == Decimal_of(body)
    IN IF (\E i \in 1..Len(body) : body[i] \notin DigitChars \cup {"."})
          \/ IsNone(d)
       THEN None
       ELSE IF Head(s) = "-"
       THEN Some(shortest(-Val(d).coef, Val(d).exp))
       ELSE Some(shortest(Val(d).coef, Val(d).exp))

\* bool(x) of an Optional[float]: None and zero are falsy
TruthyFloat(x) == ~IsNone(x) /\ Val(x).coef # 0

\* _find_column_index(header, keywords): the 0-based index of the first cell
\* that contains one of the keywords, whatever the case of the cell.
_find_column_index(header, keywords) ==
    LET hits == {i \in 0..(Len(header) - 1) :
                    /\ header[i + 1] # << >>
                    /\ \E k \in keywords :
                           search(k, replace(header[i + 1], "\n", " "))}
    IN IF hits = {} THEN None ELSE Some(least(hits))

\* The four columns of a header row.
columns(header) ==
    [desc_col |->
         _find_column_index(header, {DESCRIPTION, ITEM, PRODUCT, DETAILS}),
     qty_col |-> _find_column_index(header, {QTY, QUANTITY, COUNT}),
     price_col |->
         _find_column_index(header, {UNIT_PRICE, PRICE, RATE, COST, UNIT}),
     total_col |-> _find_column_index(header, {TOTAL, AMOUNT, EXTENSION})]

\* clean_row = [str(c).strip() if c else "" for c in row]
clean_row(row) == [i \in 1..Len(row) |-> strip(row[i])]

\* clean_row[col] inside "try: ... except: pass": None when the header has
\* no such column and when the row is too short for it (IndexError).
cell_of(cells, col) ==
    IF IsNone(col) \/ Val(col) >= Len(cells)
    THEN None
    ELSE Some(cells[Val(col) + 1])

TableItem(description, quantity, unit_price, line_total) ==
    [description |-> description, quantity |-> quantity,
     unit_price |-> unit_price, line_total |-> line_total]

\* The item of a row that reaches as far as the description column; a
\* sub-field is None when the item has no such key.
row_item(cells, cols) ==
    LET qty == cell_of(cells, cols.qty_col)
        price == cell_of(cells, cols.price_col)
        total == cell_of(cells, cols.total_col)
    IN TableItem(replace(cells[Val(cols.desc_col) + 1], "\n", " "),
                 IF IsNone(qty) THEN None ELSE float(remove(Val(qty), ",")),
                 IF IsNone(price)
                 THEN None
                 ELSE Decimal_of(keep_chars(Val(price), DigitChars \cup {"."})),
                 IF IsNone(total)
                 THEN None
                 ELSE Decimal_of(keep_chars(Val(total), DigitChars \cup {"."})))

\* The loop over table[1:]: the items so far and whether an exception left
\* the loop (clean_row[desc_col] of a row too short for it is an IndexError
\* outside every inner try).
RECURSIVE scan_rows(_, _, _)
scan_rows(rows, cols, line_items) ==
    IF rows = << >>
    THEN [line_items |-> line_items, raised |-> FALSE]
    ELSE IF Head(rows) = << >> \/ search(TOTAL, clean_row(Head(rows))[1])
    THEN scan_rows(Tail(rows), cols, line_items)
    ELSE IF Val(cols.desc_col) >= Len(Head(rows))
    THEN [line_items |-> line_items, raised |-> TRUE]
    ELSE LET item == row_item(clean_row(Head(rows)), cols)
         IN IF /\ item.description # << >>
               /\ \/ TruthyDecimal(item.line_total)
                  \/ TruthyFloat(item.quantity)
            THEN scan_rows(Tail(rows), cols, Append(line_items, item))
            ELSE scan_rows(Tail(rows), cols, line_items)

\* The loop over the tables of a page.
RECURSIVE scan_tables(_, _)
scan_tables(tables, line_items) ==
    IF tables = << >>
    THEN [line_items |-> line_items, raised |-> FALSE]
    ELSE IF Len(Head(tables)) < 2
            \/ IsNone(columns(Head(tables)[1]).desc_col)
    THEN scan_tables(Tail(tables), line_items)
    ELSE LET rows == scan_rows(Tail(Head(tables)),
                               columns(Head(tables)[1]), line_items)
         IN IF rows.raised
            THEN rows
            ELSE scan_tables(Tail(tables), rows.line_items)

\* Strategy 1, cell by cell: the loop over pdf.pages.
RECURSIVE scan_pages(_, _)
scan_pages(pages, line_items) ==
    IF pages = << >>
    THEN [line_items |-> line_items, raised |-> FALSE]
    ELSE IF Head(pages).raises = "extract_tables"
    THEN [line_items |-> line_items, raised |-> TRUE]
    ELSE LET tables == scan_tables(Head(pages).tables, line_items)
         IN IF tables.raised
            THEN tables
            ELSE scan_pages(Tail(pages), tables.line_items)

\* _extract_line_items(pdf) on pages whose tables are rows of cells: the
\* text fallback when strategy 1 ends without an item and without an
\* exception; "except Exception" returns the items gathered so far.
_extract_line_items_of_cells(pages) ==
    LET strategy1 == scan_pages(pages, << >>)
    IN IF strategy1.raised \/ strategy1.line_items # << >>
       THEN strategy1.line_items
       ELSE text_items(pages)

\* Header rows: description, quantity, price and total columns; quantity
\* before description and nothing else; no description column.
FullHeader == << << "D", "e", "s", "c", "r", "i", "p", "t", "i", "o", "n" >>, << "Q", "t", "y" >>, << "U", "n", "i", "t", " ", "P", "r", "i", "c", "e" >>, << "T", "o", "t", "a", "l" >> >>
ShortHeader == << << "Q", "t", "y" >>, << "I", "t", "e", "m" >> >>
OtherHeader == << << "N", "o" >>, << "N", "a", "m", "e" >> >>

\* Cells of the data rows under FullHeader.
DescriptionCells == {<< "P", "e", "n" >>, << >>}
QuantityCells == {<< "2" >>, << "0" >>, << "x" >>}
TotalCells == {<< "3", ".", "0", "0" >>, << "0", ".", "0", "0" >>, << >>}

\* Data rows under FullHeader: every choice of cells at a price of 1.50, a
\* footer row, a row that ends after the quantity, and an empty row.
FullRows ==
    {<< d, n, << "1", ".", "5", "0" >>, t >> :
        d \in DescriptionCells, n \in QuantityCells, t \in TotalCells}
    \cup {<< << "T", "o", "t", "a", "l" >>, << >>, << >>, << "3", ".", "0", "0" >> >>,
          << << "P", "e", "n" >>, << "2" >> >>,
          << >>}

\* Data rows under ShortHeader, one of them ending before the description.
ShortRows ==
    {<< << "2" >>, << "I", "n", "k" >> >>, << << "0" >>, << "I", "n", "k" >> >>, << << "2" >> >>}

\* A header and at most MaxRows data rows.
TablesOf(header, rows) ==
    {<< header >> \o data : data \in ListsOf(rows, MaxRows)}

TablePool ==
    TablesOf(FullHeader, FullRows) \cup TablesOf(ShortHeader, ShortRows)
    \cup TablesOf(OtherHeader, {<< << "1" >>, << "P", "e", "n" >> >>})

\* The items the pattern of the text fallback finds on a page.
FallbackLines == {<< >>, << TableItem(<< "C", "a", "p" >>, Some(Decimal(1, 0)), Some(Decimal(400, -2)), Some(Decimal(400, -2))) >>}

\* One page with one table, and two pages with one table each; the text of
\* the last page with or without an item for the fallback.
PdfPool ==
    {<< Page("", << table >>, lines) >> :
        table \in TablePool, lines \in FallbackLines}
    \cup {<< Page("", << first >>, << >>), Page("", << second >>, lines) >> :
            first \in TablesOf(ShortHeader, ShortRows),
            second \in TablesOf(FullHeader, {<< << "P", "e", "n" >>, << "2" >>, << "1", ".", "5", "0" >>, << "3", ".", "0", "0" >> >>, << << "P", "e", "n" >>, << "0" >>, << "1", ".", "5", "0" >>, << "0", ".", "0", "0" >> >>}),
            lines \in FallbackLines}
    \cup {<< Page("extract_tables", << >>, lines) >> : lines \in FallbackLines}

InitLineItems ==
    /\ tolerance = DefaultTolerance
    /\ seen_invoices = {}
    /\ today \in Todays
    /\ op = "pdf"
    /\ invoices = << >>
    /\ result = None
    /\ report = None
    /\ seen_before = {}
    /\ amount_a = 0
    /\ amount_b = 0
    /\ match = None
    /\ invoice_data = None
    /\ pdf_dir \in {<< Doc(TRUE, pages, FALSE, P1) >> : pages \in PdfPool}
    /\ date_str = << >>
    /\ parsed_date = None
    /\ op_before = "__init__"
    /\ requests = << >>
    /\ text = << >>
    /\ extracted = None

\* line_items = self._extract_line_items(pdf)
ExtractLineItems ==
    /\ op = "pdf"
    /\ extracted' = Some(_extract_line_items_of_cells(pdf_dir[1].pages))
    /\ op' = "_extract_line_items"
    /\ UNCHANGED << tolerance, seen_invoices, today, invoices, result, report,
                    seen_before, amount_a, amount_b, match, invoice_data,
                    pdf_dir, date_str, parsed_date, op_before, requests,
                    text >>

NextLineItems == ExtractLineItems

SpecLineItems == InitLineItems /\ [][NextLineItems]_vars

(***************************************************************************)
(* Properties                                                              *)
(***************************************************************************)
HasRule(findings, rule) == \E i \in 1..Len(findings) : findings[i].rule = rule

CountRule(findings, rule) ==
    Cardinality({i \in 1..Len(findings) : findings[i].rule = rule})

IsFlagged(res) == HasRule(res.errors, "duplicate_invoice")

HasKey(invoice) ==
    TruthyStr(invoice.invoice_number) /\ TruthyStr(invoice.seller_name)

SameKey(inv1, inv2) ==
    HasKey(inv1) /\ HasKey(inv2) /\ invoice_key(inv1) = invoice_key(inv2)

\* the positions of `invs` that hold a record with duplicate key k
Occurrences(invs, k) ==
    {i \in 1..Len(invs) : HasKey(invs[i]) /\ invoice_key(invs[i]) = k}

KeysOf(invs) == {invoice_key(invs[i]) : i \in {j \in 1..Len(invs) : HasKey(invs[j])}}

BatchDone == op = "validate_batch"

\* C1: duplicate detection never spans batches.  After a validate_batch
\* call the seen-set holds the keys of that batch alone, a record is flagged
\* duplicate_invoice only if an earlier record of the same batch has its
\* key, and of two records with identical invoice number, seller name and
\* invoice date in one batch exactly the second is flagged; a record whose
\* key was submitted in the call before is not flagged.
C1_DuplicatesNeverSpanBatches ==
    BatchDone =>
        LET results == Val(report).results
        IN  /\ seen_invoices = KeysOf(invoices)
            /\ \A i \in 1..Len(invoices) :
                   IsFlagged(results[i]) =>
                       \E j \in 1..(i - 1) : SameKey(invoices[j], invoices[i])
            /\ (/\ Len(invoices) = 2
                /\ HasKey(invoices[1])
                /\ invoices[1].invoice_number = invoices[2].invoice_number
                /\ invoices[1].seller_name = invoices[2].seller_name
                /\ invoices[1].invoice_date = invoices[2].invoice_date)
               => /\ ~IsFlagged(results[1])
                  /\ CountRule(results[2].errors, "duplicate_invoice") = 1

\* A batch of one record whose key the batch before recorded, returned unflagged.
C1_Witness ==
    /\ BatchDone
    /\ Len(invoices) = 1
    /\ HasKey(invoices[1])
    /\ invoice_key(invoices[1]) \in seen_before
    /\ ~IsFlagged(Val(report).results[1])

\* C2: within one validate_batch call a record carries duplicate_invoice if
\* and only if it has an invoice number and a seller name and an earlier
\* record of the list has the same duplicate key: the earliest record of a
\* key is never flagged, every later one is.
C2_FlaggedIffEarlierSameKey ==
    BatchDone =>
        \A i \in 1..Len(invoices) :
            IsFlagged(Val(report).results[i])
                <=> /\ HasKey(invoices[i])
                    /\ \E j \in 1..(i - 1) : SameKey(invoices[j], invoices[i])

\* Three records of one key: the first unflagged, the second and third flagged.
C2_Witness ==
    /\ BatchDone
    /\ Len(invoices) = 3
    /\ SameKey(invoices[1], invoices[2])
    /\ SameKey(invoices[1], invoices[3])
    /\ ~IsFlagged(Val(report).results[1])
    /\ IsFlagged(Val(report).results[2])
    /\ IsFlagged(Val(report).results[3])

Permuted(invs, p) == [i \in 1..Len(invs) |-> invs[p[i]]]

FlaggedCount(invs, results, k) ==
    Cardinality({i \in Occurrences(invs, k) : IsFlagged(results[i])})

\* C3: for every batch and every permutation of it, validate_batch flags,
\* per duplicate key, the same number of records: the occurrences of the key
\* minus one.
C3_FlaggedCountOrderIndependent ==
    BatchDone =>
        \A p \in Permutations(1..Len(invoices)) :
            \E again \in {validate_batch(Permuted(invoices, p), seen_invoices)} :
                \A k \in KeysOf(invoices) :
                    /\ FlaggedCount(Permuted(invoices, p), again.report.results, k)
                           = Cardinality(Occurrences(invoices, k)) - 1
                    /\ FlaggedCount(Permuted(invoices, p), again.report.results, k)
                           = FlaggedCount(invoices, Val(report).results, k)

\* Two different records of one key: given in the other order, the other
\* record is the one flagged.
C3_Witness ==
    /\ BatchDone
    /\ Len(invoices) = 2
    /\ invoices[1] # invoices[2]
    /\ SameKey(invoices[1], invoices[2])
    /\ IsFlagged(Val(report).results[2])
    /\ \E again \in
           {validate_batch(<< invoices[2], invoices[1] >>, seen_invoices)} :
           /\ ~IsFlagged(again.report.results[1])
           /\ IsFlagged(again.report.results[2])

\* The results the last call returned, in order.
Returned ==
    IF op = "validate_invoice" THEN << Val(result) >>
    ELSE IF op = "validate_batch" THEN Val(report).results
    ELSE << >>

\* C4: for every ValidationResult returned by validate_invoice or held in a
\* report, is_valid is false if and only if the errors list is non-empty;
\* warnings never change it.
C4_ValidIffNoErrors ==
    \A i \in 1..Len(Returned) :
        (Returned[i].is_valid = FALSE) <=> (Len(Returned[i].errors) > 0)

\* A result with two warnings and no error, valid.
C4_Witness ==
    /\ op = "validate_invoice"
    /\ Len(Val(result).warnings) >= 2
    /\ Len(Val(result).errors) = 0
    /\ Val(result).is_valid

CountNoErrors(results) ==
    Cardinality({i \in 1..Len(results) : Len(results[i].errors) = 0})

CountWithWarnings(results) ==
    Cardinality({i \in 1..Len(results) : Len(results[i].warnings) > 0})

Range(seq) == {seq[i] : i \in 1..Len(seq)}

\* C5: the summary of a report counts the records given, the results with
\* no errors, the rest, and the results with at least one warning; for the
\* three records P1, P4 and P3 (P1 without its invoice date), in any order,
\* it is total 3, valid 2, invalid 1 with invoice_date_required counted.
C5_SummaryCounts ==
    BatchDone =>
        LET summary == Val(report).summary
            results == Val(report).results
        IN  /\ summary.total_invoices = Len(invoices)
            /\ summary.valid_invoices = CountNoErrors(results)
            /\ summary.invalid_invoices
                   = summary.total_invoices - summary.valid_invoices
            /\ summary.invoices_with_warnings = CountWithWarnings(results)
            /\ (Len(invoices) = 3 /\ Range(invoices) = {P1, P3, P4})
               => /\ summary.total_invoices = 3
                  /\ summary.valid_invoices = 2
                  /\ summary.invalid_invoices = 1
                  /\ "invoice_date_required: invoice_date"
                         \in DOMAIN summary.error_counts

\* The three-record batch, one record without invoice date and one valid
\* record with a warning, summarised.
C5_Witness ==
    /\ BatchDone
    /\ invoices = << P1, P4, P3 >>
    /\ Val(report).summary.valid_invoices = 2
    /\ Val(report).summary.invoices_with_warnings = 1
    /\ Val(report).summary.error_counts["invoice_date_required: invoice_date"] = 1

\* absent, empty or whitespace-only
Blank(x) == IsNone(x) \/ \A i \in 1..Len(Val(x)) : Val(x)[i] = " "

OneIf(cond) == IF cond THEN 1 ELSE 0

\* C6: each completeness condition is checked on its own.  A record gets
\* invoice_number_required, invoice_date_required, seller_name_required,
\* buyer_name_required, gross_total_required once each, exactly for the
\* fields that are missing, and is invalid when any is.
C6_CompletenessEachOnItsOwn ==
    \A i \in 1..Len(Returned) :
        LET errors == Returned[i].errors
            invoice == invoices[i]
        IN  /\ CountRule(errors, "invoice_number_required")
                   = OneIf(Blank(invoice.invoice_number))
            /\ CountRule(errors, "invoice_date_required")
                   = OneIf(IsNone(invoice.invoice_date))
            /\ CountRule(errors, "seller_name_required")
                   = OneIf(Blank(invoice.seller_name))
            /\ CountRule(errors, "buyer_name_required")
                   = OneIf(Blank(invoice.buyer_name))
            /\ CountRule(errors, "gross_total_required")
                   = OneIf(IsNone(invoice.gross_total))
            /\ (\/ Blank(invoice.invoice_number)
                \/ IsNone(invoice.invoice_date)
                \/ Blank(invoice.seller_name)
                \/ Blank(invoice.buyer_name)
                \/ IsNone(invoice.gross_total)) => ~Returned[i].is_valid

\* A record missing all five, carrying the five errors.
C6_Witness ==
    /\ op = "validate_invoice"
    /\ Blank(invoices[1].invoice_number)
    /\ IsNone(invoices[1].invoice_date)
    /\ Blank(invoices[1].seller_name)
    /\ Blank(invoices[1].buyer_name)
    /\ IsNone(invoices[1].gross_total)
    /\ Len(Val(result).errors) = 5

CompletenessRules ==
    {"invoice_number_required", "invoice_date_required", "seller_name_required",
     "buyer_name_required", "gross_total_required"}

\* the position of a rule's group in the order completeness, format,
\* business consistency, anomaly
GroupRank(rule) ==
    CASE rule \in CompletenessRules -> 1
      [] rule = "invalid_currency" -> 2
      [] rule \in {"invalid_date_order", "totals_mismatch", "negative_amount"} -> 3
      [] rule = "duplicate_invoice" -> 4

\* d1 is a calendar date strictly before d2
DateBefore(d1, d2) ==
    \/ d1[1] < d2[1]
    \/ d1[1] = d2[1] /\ d1[2] < d2[2]
    \/ d1[1] = d2[1] /\ d1[2] = d2[2] /\ d1[3] < d2[3]

DueBeforeIssue(invoice) ==
    /\ ~IsNone(invoice.invoice_date)
    /\ ~IsNone(invoice.due_date)
    /\ DateBefore(Val(invoice.due_date), Val(invoice.invoice_date))

\* The tolerance rule in whole cents, for a tolerance of tol.n / tol.d: both
\* zero; or, one zero, less than a cent apart; or |a - b| / ((|a| + |b|) / 2)
\* at most the tolerance.
ToleranceEqual(a, b, tol) ==
    CASE a = 0 /\ b = 0 -> TRUE
      [] (a = 0) # (b = 0) -> abs(a - b) < 1
      [] OTHER -> 2 * abs(a - b) * tol.d <= tol.n * (abs(a) + abs(b))

AllTotalsPresent(invoice) ==
    /\ ~IsNone(invoice.net_total)
    /\ ~IsNone(invoice.tax_amount)
    /\ ~IsNone(invoice.gross_total)

TotalsDisagree(invoice) ==
    /\ AllTotalsPresent(invoice)
    /\ ~ToleranceEqual(Val(invoice.net_total) + Val(invoice.tax_amount),
                       Val(invoice.gross_total), tolerance)

NegativeFields(invoice) ==
    {f \in {"net_total", "tax_amount", "gross_total"} :
        ~IsNone(invoice[f]) /\ Val(invoice[f]) < 0}

\* C7: validate_invoice runs completeness, format, business consistency and
\* anomaly checks in that order and never short-circuits: the errors of a
\* result are ordered by group, and every check of a later group reports
\* what it finds whatever the earlier groups found.
C7_GroupsInOrderNoShortCircuit ==
    \A i \in 1..Len(Returned) :
        LET errors == Returned[i].errors
            warnings == Returned[i].warnings
            invoice == invoices[i]
        IN  /\ \A a, b \in 1..Len(errors) :
                   a < b => GroupRank(errors[a].rule) <= GroupRank(errors[b].rule)
            /\ HasRule(errors, "invalid_currency")
                   <=> (~IsNone(invoice.currency)
                        /\ Val(invoice.currency) \notin {"EUR", "USD", "INR", "GBP"})
            /\ HasRule(warnings, "unreasonable_invoice_date")
                   <=> (~IsNone(invoice.invoice_date)
                        /\ ~_is_reasonable_date(Val(invoice.invoice_date)))
            /\ HasRule(warnings, "unreasonable_due_date")
                   <=> (~IsNone(invoice.due_date)
                        /\ ~_is_reasonable_date(Val(invoice.due_date)))
            /\ HasRule(errors, "invalid_date_order") <=> DueBeforeIssue(invoice)
            /\ HasRule(errors, "totals_mismatch") <=> TotalsDisagree(invoice)
            /\ CountRule(errors, "negative_amount")
                   = Cardinality(NegativeFields(invoice))
            /\ op = "validate_invoice"
                   => (IsFlagged(Returned[i])
                       <=> (HasKey(invoice) /\ invoice_key(invoice) \in seen_before))

\* One result carrying a completeness error, then invalid_date_order and
\* totals_mismatch, then duplicate_invoice.
C7_Witness ==
    /\ op = "validate_invoice"
    /\ Len(Val(result).errors) >= 4
    /\ Val(result).errors[1].rule \in CompletenessRules
    /\ HasRule(Val(result).errors, "invalid_date_order")
    /\ HasRule(Val(result).errors, "totals_mismatch")
    /\ Val(result).errors[Len(Val(result).errors)].rule = "duplicate_invoice"

AmountsDone == op = "_amounts_match"

\* C8: with the default tolerance 0.02, _amounts_match gives the same answer
\* for (a, b) and (b, a), and is true of (a, a) for every a >= 0.
C8_AmountsMatchSymmetricReflexive ==
    (AmountsDone /\ tolerance = DefaultTolerance) =>
        /\ Val(match) = _amounts_match(amount_b, amount_a)
        /\ (amount_a = amount_b /\ amount_a >= 0) => Val(match)

\* Two different non-zero amounts found to match, in either order.
C8_Witness ==
    /\ AmountsDone
    /\ tolerance = DefaultTolerance
    /\ amount_a > 0
    /\ amount_b > amount_a
    /\ Val(match)
    /\ _amounts_match(amount_b, amount_a)

\* C9: totals_mismatch is reported, once, if and only if net total, tax
\* amount and gross total are all present and net + tax is not equal within
\* tolerance to gross: never when gross = net + tax and, at tolerance 0.02,
\* not for 100.00 + 19.00 against 119.01 but for 100.00 + 19.00 against
\* 125.00 (record invalid).
C9_TotalsMismatchIffOutOfTolerance ==
    \A i \in 1..Len(Returned) :
        LET errors == Returned[i].errors
            invoice == invoices[i]
            net == Val(invoice.net_total)
            tax == Val(invoice.tax_amount)
            gross == Val(invoice.gross_total)
        IN  /\ CountRule(errors, "totals_mismatch") = OneIf(TotalsDisagree(invoice))
            /\ (AllTotalsPresent(invoice) /\ net + tax = gross)
                   => ~HasRule(errors, "totals_mismatch")
            /\ (AllTotalsPresent(invoice) /\ tolerance = DefaultTolerance
                /\ net = 10000 /\ tax = 1900 /\ gross = 11901)
                   => ~HasRule(errors, "totals_mismatch")
            /\ (AllTotalsPresent(invoice) /\ tolerance = DefaultTolerance
                /\ net = 10000 /\ tax = 1900 /\ gross = 12500)
                   => /\ CountRule(errors, "totals_mismatch") = 1
                      /\ ~Returned[i].is_valid

\* 100.00 + 19.00 against 119.01: no totals_mismatch.
C9_Witness ==
    /\ op = "validate_invoice"
    /\ tolerance = DefaultTolerance
    /\ invoices[1].net_total = Some(10000)
    /\ invoices[1].tax_amount = Some(1900)
    /\ invoices[1].gross_total = Some(11901)
    /\ ~HasRule(Val(result).errors, "totals_mismatch")

\* C10: _amounts_match follows the three-case rule on amounts in cents: true
\* when both are zero; false when exactly one is zero; otherwise true exactly
\* when |a - b| over the average of |a| and |b| is at most the tolerance, a
\* ratio equal to the tolerance included.
C10_AmountsMatchThreeCases ==
    AmountsDone =>
        /\ Val(match) = ToleranceEqual(amount_a, amount_b, tolerance)
        /\ (amount_a = 0 /\ amount_b = 0) => Val(match)
        /\ ((amount_a = 0) # (amount_b = 0)) => ~Val(match)

\* 1.01 against 0.99 at tolerance 0.02: the ratio is exactly 0.02, a match.
C10_Witness ==
    /\ AmountsDone
    /\ tolerance = DefaultTolerance
    /\ amount_a = 101
    /\ amount_b = 99
    /\ Val(match)

\* The sum of the items' line totals, an absent total counting as zero.
RECURSIVE TotalOfItems(_, _)
TotalOfItems(items, n) ==
    IF n = 0
    THEN 0
    ELSE TotalOfItems(items, n - 1)
         + (IF IsNone(items[n].line_total) THEN 0 ELSE Val(items[n].line_total))

ItemsDisagree(invoice) ==
    /\ Len(invoice.line_items) > 0
    /\ ~IsNone(invoice.net_total)
    /\ TotalOfItems(invoice.line_items, Len(invoice.line_items)) > 0
    /\ ~ToleranceEqual(TotalOfItems(invoice.line_items, Len(invoice.line_items)),
                       Val(invoice.net_total), tolerance)

\* C11: the line-items check only ever produces a warning:
\* line_items_sum_mismatch is never among the errors, and it is among the
\* warnings, once, exactly when line items exist, net total is present and
\* the sum of the items' line totals (absent totals as zero) is strictly
\* positive and not equal within tolerance to net total; a record whose only
\* finding is line_items_sum_mismatch is valid.
C11_LineItemsOnlyWarn ==
    \A i \in 1..Len(Returned) :
        LET res == Returned[i]
        IN  /\ ~HasRule(res.errors, "line_items_sum_mismatch")
            /\ CountRule(res.warnings, "line_items_sum_mismatch")
                   = OneIf(ItemsDisagree(invoices[i]))
            /\ (Len(res.errors) = 0 /\ Len(res.warnings) = 1
                /\ HasRule(res.warnings, "line_items_sum_mismatch"))
                   => res.is_valid

\* Items of 50.00 and 30.00 against a net total of 100.00: the one finding
\* is the warning, and the record is valid.
C11_Witness ==
    /\ op = "validate_invoice"
    /\ invoices[1].net_total = Some(10000)
    /\ Len(invoices[1].line_items) = 2
    /\ TotalOfItems(invoices[1].line_items, 2) = 8000
    /\ Len(Val(result).errors) = 0
    /\ Len(Val(result).warnings) = 1
    /\ HasRule(Val(result).warnings, "line_items_sum_mismatch")
    /\ Val(result).is_valid

\* The caller's sequence of calls is over: Invoice(...) raised, or
\* validate_invoice returned.
BuildDone == op \in {"ValidationError", "validate_invoice"}

\* C12: a record whose net total, tax amount or gross total is present and
\* negative reaches the rule engine and is reported invalid with one
\* negative_amount error per negative field, each of the three fields on its
\* own (net_total = -100.00 and gross_total = -100.00: is_valid false with
\* negative_amount errors).
C12_NegativeAmountsReported ==
    (BuildDone /\ NegativeFields(Val(invoice_data)) # {}) =>
        /\ op = "validate_invoice"
        /\ ~Val(result).is_valid
        /\ \A f \in {"net_total", "tax_amount", "gross_total"} :
               Len(SelectSeq(Val(result).errors,
                             LAMBDA e : e.rule = "negative_amount"
                                        /\ e.field = Some(f)))
                   = OneIf(f \in NegativeFields(Val(invoice_data)))

\* C13: a record whose currency is present but outside {EUR, USD, INR, GBP}
\* (for example "XXX") is accepted as a record and reported by validation as
\* invalid with an invalid_currency error: building the record does not
\* fail.
C13_InvalidCurrencyReported ==
    (/\ BuildDone
     /\ ~IsNone(Val(invoice_data).currency)
     /\ Val(Val(invoice_data).currency) \notin Currency) =>
        /\ op = "validate_invoice"
        /\ ~Val(result).is_valid
        /\ CountRule(Val(result).errors, "invalid_currency") = 1

\* C14: invalid_date_order is reported, once and with the record invalid, if
\* and only if invoice date and due date are both present and the due date
\* is strictly before the invoice date; equal dates, or an absent date, give
\* no such error (due 2024-01-10 with invoice date 2024-01-25 gives it).
C14_DateOrderIffDueBeforeIssue ==
    \A i \in 1..Len(Returned) :
        LET res == Returned[i]
            invoice == invoices[i]
        IN  /\ CountRule(res.errors, "invalid_date_order")
                   = OneIf(DueBeforeIssue(invoice))
            /\ HasRule(res.errors, "invalid_date_order") => ~res.is_valid
            /\ ~HasRule(res.warnings, "invalid_date_order")
            /\ (IsNone(invoice.invoice_date) \/ IsNone(invoice.due_date)
                \/ invoice.invoice_date = invoice.due_date)
                   => ~HasRule(res.errors, "invalid_date_order")
            /\ (invoice.invoice_date = Some(<< 2024, 1, 25 >>)
                /\ invoice.due_date = Some(<< 2024, 1, 10 >>))
                   => HasRule(res.errors, "invalid_date_order")

\* Due 2024-01-10 against an invoice date of 2024-01-25: the error, alone.
C14_Witness ==
    /\ op = "validate_invoice"
    /\ invoices[1].invoice_date = Some(<< 2024, 1, 25 >>)
    /\ invoices[1].due_date = Some(<< 2024, 1, 10 >>)
    /\ Len(Val(result).errors) = 1
    /\ Val(result).errors[1].rule = "invalid_date_order"
    /\ ~Val(result).is_valid

\* The day d, k years later in the calendar (no 29 February among the days
\* used).
YearsLater(d, k) == << d[1] + k, d[2], d[3] >>

\* d lies in the closed interval from today minus 10 calendar years to today
\* plus 2 calendar years.
InCalendarRange(d) ==
    /\ ~DateBefore(d, YearsLater(today, -10))
    /\ ~DateBefore(YearsLater(today, 2), d)

\* C15: for every present invoice date and every present due date, the
\* warning unreasonable_invoice_date, respectively unreasonable_due_date, is
\* produced exactly when that date lies outside the closed interval from
\* today minus 10 calendar years to today plus 2 calendar years; each date is
\* judged on its own and the finding is never an error.
C15_UnreasonableIffOutsideCalendarYears ==
    \A i \in 1..Len(Returned) :
        LET res == Returned[i]
            invoice == invoices[i]
        IN  /\ CountRule(res.warnings, "unreasonable_invoice_date")
                   = OneIf(/\ ~IsNone(invoice.invoice_date)
                           /\ ~InCalendarRange(Val(invoice.invoice_date)))
            /\ CountRule(res.warnings, "unreasonable_due_date")
                   = OneIf(/\ ~IsNone(invoice.due_date)
                           /\ ~InCalendarRange(Val(invoice.due_date)))
            /\ ~HasRule(res.errors, "unreasonable_invoice_date")
            /\ ~HasRule(res.errors, "unreasonable_due_date")

\* The rules of the engine by the severity they report with.
ErrorRules ==
    {"invoice_number_required", "invoice_date_required", "seller_name_required",
     "buyer_name_required", "gross_total_required", "invalid_currency",
     "invalid_date_order", "totals_mismatch", "negative_amount",
     "duplicate_invoice"}

WarningRules ==
    {"unreasonable_invoice_date", "unreasonable_due_date",
     "line_items_sum_mismatch"}

\* C16: the rule engine never throws: for every record (absent fields, zero
\* and non-zero amounts, no line items, line items with absent totals) no
\* exception leaves validate_invoice or validate_batch, the call returns a
\* result for each record, and every finding is an error entry among the
\* errors or a warning entry among the warnings; the tolerance computation
\* never divides by zero.
C16_NeverThrows ==
    /\ op # "raised"
    /\ (op = "validate_invoice") => ~IsNone(result)
    /\ (op = "validate_batch") =>
           /\ ~IsNone(report)
           /\ Len(Val(report).results) = Len(invoices)
    /\ (op = "args") =>
           \A i \in 1..Len(invoices) : ~validate_invoice_raises(invoices[i])
    /\ \A i \in 1..Len(Returned) :
           /\ \A j \in 1..Len(Returned[i].errors) :
                  /\ Returned[i].errors[j].severity = "error"
                  /\ Returned[i].errors[j].rule \in ErrorRules
           /\ \A j \in 1..Len(Returned[i].warnings) :
                  /\ Returned[i].warnings[j].severity = "warning"
                  /\ Returned[i].warnings[j].rule \in WarningRules

\* Net, tax and gross all zero, no invoice number, one line item without a
\* total and one of zero: validate_invoice returns a result.
C16_Witness ==
    /\ op = "validate_invoice"
    /\ invoices[1].net_total = Some(0)
    /\ invoices[1].tax_amount = Some(0)
    /\ invoices[1].gross_total = Some(0)
    /\ IsNone(invoices[1].invoice_number)
    /\ invoices[1].line_items = << LineItem(None), LineItem(Some(0)) >>
    /\ ~IsNone(result)
    /\ ~HasRule(Val(result).errors, "totals_mismatch")

\* The findings of a list of results, as the set of their positions
\* << result, index >>, errors or warnings according to kind.
FindingsOf(results, kind) ==
    UNION {{<< i, j >> : j \in 1..Len(results[i][kind])} :
               i \in 1..Len(results)}

\* The frequency key the claim gives a finding.
KeyOf(f) == IF IsNone(f.field) THEN f.rule ELSE f.rule \o ": " \o Val(f.field)

RECURSIVE SumOver(_, _)
SumOver(counts, keys) ==
    IF keys = {}
    THEN 0
    ELSE LET k == CHOOSE x \in keys : TRUE
         IN  counts[k] + SumOver(counts, keys \ {k})

\* counts is the frequency table of the findings of one kind.
IsFrequencyTable(counts, results, kind) ==
    LET at == FindingsOf(results, kind)
        f(p) == results[p[1]][kind][p[2]]
    IN  /\ DOMAIN counts = {KeyOf(f(p)) : p \in at}
        /\ \A p \in at :
               counts[KeyOf(f(p))]
                   = Cardinality({q \in at : /\ f(q).rule = f(p).rule
                                             /\ f(q).field = f(p).field})
        /\ SumOver(counts, DOMAIN counts) = Cardinality(at)

\* C17: in every summary each error (warning) frequency key is the rule
\* name alone when the finding has no field and "rule: field" when it has
\* one; the count under a key is the number of errors (warnings) with that
\* rule and field over all results, so the counts of error_counts sum to the
\* number of errors in the report.
C17_FrequencyKeysAndCounts ==
    ~IsNone(report) =>
        /\ IsFrequencyTable(Val(report).summary.error_counts,
                            Val(report).results, "errors")
        /\ IsFrequencyTable(Val(report).summary.warning_counts,
                            Val(report).results, "warnings")

\* Two results with three errors between them: a key of the rule alone
\* counted twice beside a key of rule and field.
C17_Witness ==
    /\ op = "_create_summary"
    /\ Len(Val(report).results) = 2
    /\ DOMAIN Val(report).summary.error_counts
           = {"duplicate_invoice", "negative_amount: net_total"}
    /\ Val(report).summary.error_counts["duplicate_invoice"] = 2
    /\ Val(report).summary.error_counts["negative_amount: net_total"] = 1

ExtractDone == op = "extract_from_directory"

\* An exception leaves a step of extract_from_pdf: opening the file, reading
\* a page's text, parsing the text, or building the record.
DocFails(doc) ==
    \/ ~doc.opens
    \/ \E i \in 1..Len(doc.pages) : doc.pages[i].raises = "extract_text"
    \/ doc.parse_raises
    \/ NegativeFields(doc.data) # {}
    \/ ~IsNone(doc.data.currency) /\ Val(doc.data.currency) \notin Currency

\* An exception is raised inside the line-item extractor.
LineItemsRaise(doc) ==
    \E i \in 1..Len(doc.pages) : doc.pages[i].raises = "extract_tables"

\* The records with the file name of the i-th document.
RecordsOf(i) ==
    {k \in 1..Len(invoices) : invoices[k].source_file = Some(pdf_name(i))}

\* C18, as claimed: when processing a document fails, by an exception in any
\* sub-extractor (the line-item extractor included) or while building the
\* record, the document is skipped, and extract_from_directory returns
\* exactly one record per document that did not fail.
C18_AnyExceptionSkipsDocument ==
    ExtractDone =>
        LET failed == {i \in 1..Len(pdf_dir) :
                          DocFails(pdf_dir[i]) \/ LineItemsRaise(pdf_dir[i])}
        IN  /\ \A i \in failed : RecordsOf(i) = {}
            /\ \A i \in (1..Len(pdf_dir)) \ failed : Cardinality(RecordsOf(i)) = 1
            /\ Len(invoices) = Len(pdf_dir) - Cardinality(failed)

\* C18, amended: when an exception leaves a step of extract_from_pdf
\* (opening, page text, text parsing, building the record) the document is
\* skipped with no record of its own, and every other document is extracted:
\* the records returned are, in directory order, one per document that did
\* not fail, each with that document's fields.  An exception inside the
\* line-item extractor is caught there and does not fail the document: its
\* record is returned with the line items gathered before the exception.
C18_EscapingExceptionSkipsDocument ==
    ExtractDone =>
        LET failed == {i \in 1..Len(pdf_dir) : DocFails(pdf_dir[i])}
            kept == (1..Len(pdf_dir)) \ failed
            rank(i) == Cardinality({j \in kept : j <= i})
        IN  /\ \A i \in failed : RecordsOf(i) = {}
            /\ Len(invoices) = Cardinality(kept)
            /\ \A i \in kept :
                   LET rec == invoices[rank(i)]
                       doc == pdf_dir[i]
                   IN  /\ RecordsOf(i) = {rank(i)}
                       /\ [rec EXCEPT !.line_items = << >>, !.source_file = None]
                              = [doc.data EXCEPT !.line_items = << >>,
                                                 !.source_file = None]
                       /\ LineItemsRaise(doc) =>
                              \E n \in 0..Len(doc.pages) - 1 :
                                  /\ doc.pages[n + 1].raises = "extract_tables"
                                  /\ \A m \in 1..n :
                                         doc.pages[m].raises = ""
                                  /\ rec.line_items
                                         = table_items(SubSeq(doc.pages, 1, n),
                                                       << >>).line_items

\* A document whose text parser raises, then a document whose second page
\* raises in extract_tables: one record, of the second file, with the first
\* page's line item.
C18_Witness ==
    /\ ExtractDone
    /\ Len(pdf_dir) = 2
    /\ pdf_dir[1].parse_raises
    /\ Len(pdf_dir[2].pages) = 2
    /\ pdf_dir[2].pages[2].raises = "extract_tables"
    /\ Len(invoices) = 1
    /\ invoices[1].source_file = Some(pdf_name(2))
    /\ invoices[1].line_items = << LineItem(Some(5000)) >>

ParseDone == op = "_parse_date"

\* The one or two digits a day or month below 100 is written with.
TwoForms(n) ==
    IF n < 10
    THEN {<< Digit(n) >>, << "0", Digit(n) >>}
    ELSE {<< Digit(n \div 10), Digit(n % 10) >>}

FourDigits(y) ==
    << Digit(y \div 1000), Digit((y \div 100) % 10), Digit((y \div 10) % 10),
       Digit(y % 10) >>

\* The layouts in list order, as the order of the fields and the separator.
Layouts ==
    << [order |-> "dmy", sep |-> "."], [order |-> "mdy", sep |-> "."],
       [order |-> "ymd", sep |-> "-"], [order |-> "dmy", sep |-> "-"],
       [order |-> "dmy", sep |-> "/"], [order |-> "mdy", sep |-> "/"] >>

\* The tokens that write the date << y, m, d >> in a layout.
Written(date, layout) ==
    LET y == {FourDigits(date[1])}
        m == TwoForms(date[2])
        d == TwoForms(date[3])
        fields == CASE layout.order = "dmy" -> << d, m, y >>
                    [] layout.order = "mdy" -> << m, d, y >>
                    [] layout.order = "ymd" -> << y, m, d >>
    IN  {a \o << layout.sep >> \o b \o << layout.sep >> \o c :
            a \in fields[1], b \in fields[2], c \in fields[3]}

\* Years written in the tokens, year 0 (no calendar year) among them.
ReadYears == {0, 2020, 2021}

\* The calendar dates a token denotes when read in a layout: the years
\* written where the layout has the year, then the months and days.
Readings(token, layout) ==
    LET written_year == IF layout.order = "ymd"
                        THEN SubSeq(token, 1, 4)
                        ELSE SubSeq(token, Len(token) - 3, Len(token))
        years == {y \in ReadYears : y >= 1 /\ FourDigits(y) = written_year}
    IN  {date \in years \X (1..12) \X (1..31) :
            /\ date[3] <= days_in_month(date[1], date[2])
            /\ token \in Written(date, layout)}

\* The ISO text YYYY-MM-DD of a date.
IsoText(date) ==
    FourDigits(date[1]) \o << "-" >> \o << Digit(date[2] \div 10), Digit(date[2] % 10) >>
    \o << "-" >> \o << Digit(date[3] \div 10), Digit(date[3] % 10) >>

\* C19: the date normalizer returns the reading of the first layout, in
\* list order, under which the token denotes a date, and None when there is
\* none: a token that reads day-first and month-first with "." or with "/"
\* (03.04.2021, 03/04/2021) comes back under the day-first reading, a token
\* that only reads month-first (05.23.2021) under the month-first one.
C19_FirstLayoutWins ==
    ParseDone =>
        \A readings \in {[i \in 1..Len(Layouts) |->
                              Readings(date_str, Layouts[i])]} :
            LET reads == {i \in 1..Len(Layouts) : readings[i] # {}}
                first == CHOOSE i \in reads : \A j \in reads : i <= j
            IN  /\ (reads = {}) <=> IsNone(parsed_date)
                /\ (reads # {}) =>
                       \E date \in readings[first] :
                           parsed_date = Some(IsoText(date))
                /\ \A k \in {1, 5} :
                       /\ ({k, k + 1} \subseteq reads) =>
                              \E date \in readings[k] :
                                  parsed_date = Some(IsoText(date))
                       /\ (k \notin reads /\ k + 1 \in reads) =>
                              \E date \in readings[k + 1] :
                                  parsed_date = Some(IsoText(date))

\* 03.04.2021 reads as 3 April and as 4 March 2021: 2021-04-03 comes back.
C19_Witness ==
    /\ ParseDone
    /\ date_str = << "0", "3", ".", "0", "4", ".", "2", "0", "2", "1" >>
    /\ Readings(date_str, Layouts[1]) = {<< 2021, 4, 3 >>}
    /\ Readings(date_str, Layouts[2]) = {<< 2021, 3, 4 >>}
    /\ parsed_date = Some(<< "2", "0", "2", "1", "-", "0", "4", "-", "0", "3" >>)

\* What the invoice_date / due_date patterns capture: one or two digits, a
\* separator, one or two digits, a separator, two to four digits.
Capturable(token) ==
    LET n1 == digit_run(token)
        rest1 == SubSeq(token, n1 + 2, Len(token))
        n2 == digit_run(rest1)
        rest2 == SubSeq(rest1, n2 + 2, Len(rest1))
    IN  /\ n1 \in {1, 2}
        /\ Len(token) > n1 /\ token[n1 + 1] \in Separators
        /\ n2 \in {1, 2}
        /\ Len(rest1) > n2 /\ rest1[n2 + 1] \in Separators
        /\ Len(rest2) \in 2..4
        /\ digit_run(rest2) = Len(rest2)

\* The token writes a calendar date of 2020 or 2021 day-first or
\* month-first, with one separator and the year in two or in four digits.
DenotesDate(token) ==
    \E y \in {2020, 2021}, m \in 1..12, d \in 1..31, sep \in Separators :
        /\ d <= days_in_month(y, m)
        /\ \E a \in TwoForms(d), b \in TwoForms(m),
              c \in {FourDigits(y), << Digit((y \div 10) % 10), Digit(y % 10) >>} :
               \/ token = a \o << sep >> \o b \o << sep >> \o c
               \/ token = b \o << sep >> \o a \o << sep >> \o c

\* C20: the date normalizer accepts 2-digit as well as 4-digit years for
\* each of the separators ".", "/" and "-": every token the invoice_date /
\* due_date patterns can capture that denotes a real calendar date is
\* normalized to a date, not left unparseable.
C20_CapturedDatesAreNormalized ==
    (ParseDone /\ Capturable(date_str) /\ DenotesDate(date_str))
        => ~IsNone(parsed_date)

\* A string without the white space around it, read off the string itself.
Core(s) ==
    CHOOSE c \in {SubSeq(s, i, j) : i \in 1..(Len(s) + 1), j \in 0..Len(s)} :
        \E i \in 1..(Len(s) + 1), j \in 0..Len(s) :
            /\ c = SubSeq(s, i, j)
            /\ \A k \in 1..(i - 1) : s[k] = " "
            /\ \A k \in (j + 1)..Len(s) : s[k] = " "
            /\ c # << >> => (c[1] # " " /\ c[Len(c)] # " ")

\* The letter a character is a form of, whatever its case.
Letter(c) ==
    CASE c \in {"a", "A"} -> "a"
      [] c \in {"b", "B"} -> "b"
      [] c \in {"s", "S"} -> "s"
      [] OTHER -> c

\* Two strings that differ at most in letter case and surrounding white space.
SameText(s, t) ==
    /\ Len(Core(s)) = Len(Core(t))
    /\ \A i \in 1..Len(Core(s)) : Letter(Core(s)[i]) = Letter(Core(t)[i])

PairDone == op = "validate_batch" /\ Len(invoices) = 2

C27_SeenSetResetOnlyByBatch ==
    /\ op = "args" => seen_invoices = seen_before
    /\ op = "validate_invoice" =>
           LET invoice == invoices[1]
           IN  /\ seen_before \subseteq seen_invoices
               /\ HasKey(invoice) =>
                      /\ seen_invoices = seen_before \cup {invoice_key(invoice)}
                      /\ IsFlagged(Val(result))
                             <=> invoice_key(invoice) \in seen_before
               /\ ~HasKey(invoice) =>
                      /\ seen_invoices = seen_before
                      /\ ~IsFlagged(Val(result))
    /\ op = "validate_batch" =>
           /\ seen_invoices = KeysOf(invoices)
           /\ \A i \in 1..Len(invoices) :
                  (\A j \in 1..(i - 1) : ~SameKey(invoices[j], invoices[i]))
                      => ~IsFlagged(Val(report).results[i])

\* The second of two direct validate_invoice calls in a row, on a record
\* whose key the first recorded, returns it flagged.
C27_Witness ==
    /\ op = "validate_invoice"
    /\ op_before = "validate_invoice"
    /\ HasKey(invoices[1])
    /\ seen_before = {invoice_key(invoices[1])}
    /\ IsFlagged(Val(result))

\* A validate_batch call right after a direct validate_invoice call has
\* dropped the key that call recorded and returns its record unflagged.
C27_WitnessForgotten ==
    /\ op = "validate_batch"
    /\ op_before = "validate_invoice"
    /\ Len(invoices) = 1
    /\ HasKey(invoices[1])
    /\ invoice_key(invoices[1]) \in seen_before
    /\ \E k \in seen_before : k \notin seen_invoices
    /\ ~IsFlagged(Val(report).results[1])

\* C28: a record's duplicate key is recorded whenever the record has an
\* invoice number and a seller name, whether or not the record is valid: the
\* key of the first record of a list is in the seen-set and a second record
\* of the same key is flagged duplicate_invoice, whatever errors the first
\* one has; a flagged record leaves the seen-set as it was, holding the
\* first record's key alone.
C28_KeyRecordedRegardlessOfValidity ==
    PairDone =>
        LET first == invoices[1]
            second == invoices[2]
            results == Val(report).results
        IN  /\ HasKey(first) => invoice_key(first) \in seen_invoices
            /\ SameKey(first, second) => IsFlagged(results[2])
            /\ IsFlagged(results[2]) => seen_invoices = {invoice_key(first)}

\* A first record that is invalid without being a duplicate, and a second
\* record of its key whose one error is duplicate_invoice.
C28_Witness ==
    /\ PairDone
    /\ ~Val(report).results[1].is_valid
    /\ ~IsFlagged(Val(report).results[1])
    /\ HasRule(Val(report).results[1].errors, "totals_mismatch")
    /\ Len(Val(report).results[2].errors) = 1
    /\ IsFlagged(Val(report).results[2])
    /\ seen_invoices = {invoice_key(invoices[1])}

Responded(r) == requests[r].pc = "responded"

\* C29: one module-level validator serves every request, and for all
\* requests in flight and every order in which their handlers are given the
\* event loop, the report of each request is the report a fresh validator
\* gives for the list of that request alone: no record is flagged
\* duplicate_invoice because of another request's record, and no duplicate
\* within a request is missed.
C29_RequestsDoNotInterfere ==
    \A r \in RequestIds :
        (Responded(r) /\ ~IsNone(Val(requests[r].response).validation_report))
            => \E fresh \in {validate_batch(requests[r].invoices, {})} :
                   /\ Val(Val(requests[r].response).validation_report)
                          = fresh.report
                   /\ \A i \in 1..Len(requests[r].invoices) :
                          IsFlagged(fresh.report.results[i])
                              <=> \E j \in 1..(i - 1) :
                                      SameKey(requests[r].invoices[j],
                                              requests[r].invoices[i])

\* Two requests answered, one on each endpoint, both holding P1's key: one
\* with a duplicate of its own, flagged, the other with its one record
\* unflagged.
C29_Witness ==
    /\ Responded(1)
    /\ Responded(2)
    /\ requests[1].endpoint = "/validate-json"
    /\ requests[2].endpoint = "/extract-and-validate-pdfs"
    /\ requests[1].invoices = << P1, P2 >>
    /\ Len(requests[2].invoices) = 1
    /\ SameKey(requests[2].invoices[1], P1)
    /\ IsFlagged(Val(Val(requests[1].response).validation_report).results[2])
    /\ ~IsFlagged(Val(Val(requests[2].response).validation_report).results[1])

\* C30: POST /validate-json with an empty list of invoices is answered with
\* the client error raised for it, status 400 and detail "No invoices
\* provided", not with a 500, and the validator's seen-set is left as it
\* was.
C30_EmptyListAnswered400 ==
    [][\A r \in RequestIds :
           (/\ requests[r].pc = "received"
            /\ requests[r].endpoint = "/validate-json"
            /\ requests[r].invoices = << >>
            /\ requests'[r].pc = "responded")
               => /\ Val(requests'[r].response).status_code = 400
                  /\ Val(requests'[r].response).detail = "No invoices provided"
                  /\ seen_invoices' = seen_invoices]_vars

\* Two Decimals of one value: equal once the zeros at the end of the
\* decimals are dropped.
RECURSIVE Normalized(_)
Normalized(d) ==
    IF d.coef = 0
    THEN Decimal(0, 0)
    ELSE IF d.exp < 0 /\ d.coef % 10 = 0
    THEN Normalized(Decimal(d.coef \div 10, d.exp + 1))
    ELSE d

SameValue(d1, d2) == Normalized(d1) = Normalized(d2)

\* C21: normalization is idempotent.  _parse_date run on its own output,
\* the ISO date string, gives that string again, and clean_number run on
\* the string form of its own output gives a Decimal of the same value; an
\* outcome of None stays None when its string form is run through again.
C21_NormalizersIdempotent ==
    /\ op = "_parse_date" =>
           IF IsNone(parsed_date)
           THEN IsNone(_parse_date(<< "N", "o", "n", "e" >>))
           ELSE _parse_date(Val(parsed_date)) = parsed_date
    /\ op = "clean_number" =>
           \E again \in {clean_number(str_amount(extracted))} :
               IF IsNone(extracted)
               THEN IsNone(again)
               ELSE ~IsNone(again) /\ SameValue(Val(again), Val(extracted))

AmountsDoneText == op = "_extract_amounts"

\* The lines of the document that carry the label.
LinesOf(label) == {i \in 1..Len(text) : text[i].label = label}

Occurs(label) == LinesOf(label) # {}

\* The token of the last line that carries the label.
LastToken(label) ==
    text[CHOOSE i \in LinesOf(label) : \A j \in LinesOf(label) : j <= i].token

\* C22: gross total resolution respects label priority.  "TOTAL DUE",
\* "AMOUNT DUE", "TOTAL PAYABLE", "GRAND TOTAL" are tried in that order and
\* the gross total is the last occurrence of the first of them that occurs
\* in the document, whatever lower-priority label comes later in the text;
\* the bare "TOTAL" label is used only if none of the four occurs.
C22_GrossTotalByLabelPriority ==
    AmountsDoneText =>
        LET occurring == {i \in 1..Len(gross_keys) : Occurs(gross_keys[i])}
            gross_total == Val(extracted).gross_total
        IN  IF occurring # {}
            THEN LET first == CHOOSE i \in occurring : \A j \in occurring : i <= j
                 IN  gross_total = clean_number(LastToken(gross_keys[first]))
            ELSE IF Occurs(TOTAL)
            THEN \E i \in LinesOf(TOTAL) : gross_total = clean_number(text[i].token)
            ELSE IsNone(gross_total)

GrossLabels == {gross_keys[i] : i \in 1..Len(gross_keys)} \cup {TOTAL}

NetLabels == {net_keys[i] : i \in 1..Len(net_keys)}

TaxLabels == {tax_keys[i] : i \in 1..Len(tax_keys)}

\* A total is resolved when a line carries one of its labels: every token
\* of the documents is a number.
Resolved(labels) == \E i \in 1..Len(text) : text[i].label \in labels

\* C23: derivation fallback.  For every document in which a gross total and
\* a tax amount are both resolved, to any value from zero up, and no net
\* total is, the extracted amounts hold all three with net total = gross
\* total - tax amount; a net total that is resolved is returned as it was
\* read, never replaced by the derivation.
C23_NetDerivedFromGrossAndTax ==
    AmountsDoneText =>
        LET data == Val(extracted)
        IN  /\ (Resolved(GrossLabels) /\ Resolved(TaxLabels) /\ ~Resolved(NetLabels))
                   => /\ ~IsNone(data.gross_total)
                      /\ ~IsNone(data.tax_amount)
                      /\ ~IsNone(data.net_total)
                      /\ SameValue(Val(data.net_total),
                                   decimal_sub(Val(data.gross_total),
                                               Val(data.tax_amount)))
            /\ Resolved(NetLabels)
                   => \E i \in 1..Len(text) :
                          /\ text[i].label \in NetLabels
                          /\ data.net_total = clean_number(text[i].token)

PartiesDone == op = "_extract_parties"

\* The lines of the text, the last one without the newline that ends it.
LinesOfText == split(text, "\n")

\* The lines that hold a buyer trigger.
TriggerLines ==
    {i \in 1..Len(LinesOfText) : ~IsNone(match_end(LinesOfText[i]))}

\* What follows the trigger on its line, separator punctuation stripped.
AfterTrigger(line) ==
    strip_chars(slice(line, Val(match_end(line)), Len(line)),
                {" ", ":", "-", "\t"})

\* The lines after line i.
Following(i) == SubSeq(LinesOfText, i + 1, Len(LinesOfText))

RECURSIVE SkipBlank(_)
SkipBlank(lines) ==
    IF lines # << >> /\ strip(Head(lines)) = << >>
    THEN SkipBlank(Tail(lines))
    ELSE lines

\* The lines up to the first blank line or the first line that contains an
\* other-section keyword.
RECURSIVE Block(_)
Block(lines) ==
    IF lines = << >>
       \/ strip(Head(lines)) = << >>
       \/ \E k \in stop_keywords : search(k, Head(lines))
    THEN << >>
    ELSE << strip(Head(lines)) >> \o Block(Tail(lines))

JoinedOrAbsent(lines) ==
    IF lines = << >> THEN None ELSE Some(join(<< " " >>, lines))

\* C24: the buyer block starts at the first trigger of the text; content
\* after the trigger on its line is the buyer name and the lines after it, up
\* to the first blank line or other-section keyword, joined with spaces, are
\* the buyer address; with nothing after the trigger, blank lines are skipped,
\* the first collected line is the name and the rest the address; without a
\* trigger the buyer fields are absent.
C24_BuyerBlockScan ==
    PartiesDone =>
        LET parties == Val(extracted)
        IN IF TriggerLines = {}
           THEN parties.buyer_name = None /\ parties.buyer_address = None
           ELSE LET i == least(TriggerLines)
                    name == AfterTrigger(LinesOfText[i])
                    block == Block(SkipBlank(Following(i)))
                IN IF name # << >>
                   THEN /\ parties.buyer_name = Some(name)
                        /\ parties.buyer_address
                               = JoinedOrAbsent(Block(Following(i)))
                   ELSE /\ parties.buyer_name
                               = (IF block = << >> THEN None
                                  ELSE Some(block[1]))
                        /\ parties.buyer_address
                               = (IF block = << >> THEN None
                                  ELSE JoinedOrAbsent(Tail(block)))

LineItemsDone == op = "_extract_line_items"

\* The tables of the pages, in the order of the pages.
RECURSIVE TablesOfPages(_)
TablesOfPages(pages) ==
    IF pages = << >>
    THEN << >>
    ELSE Head(pages).tables \o TablesOfPages(Tail(pages))

\* A data row yields an item: its first cell does not contain "total", its
\* description is there and not empty, and its line total or its quantity
\* parses.
RowYields(row, cols) ==
    /\ row # << >>
    /\ ~search(TOTAL, clean_row(row)[1])
    /\ Val(cols.desc_col) < Len(row)
    /\ LET item == row_item(clean_row(row), cols)
       IN /\ item.description # << >>
          /\ ~IsNone(item.line_total) \/ ~IsNone(item.quantity)

\* The items of the rows of a table that yield one, each sub-field parsed
\* on its own.
ItemsOfTable(table) ==
    IF Len(table) < 2 \/ IsNone(columns(table[1]).desc_col)
    THEN << >>
    ELSE LET cols == columns(table[1])
             rows == SelectSeq(Tail(table), LAMBDA row : RowYields(row, cols))
         IN [i \in 1..Len(rows) |-> row_item(clean_row(rows[i]), cols)]

RECURSIVE ItemsOfTables(_)
ItemsOfTables(tables) ==
    IF tables = << >>
    THEN << >>
    ELSE ItemsOfTable(Head(tables)) \o ItemsOfTables(Tail(tables))

\* C25: when no page fails to give its tables, the table strategy yields
\* the item of every data row, and of no other, whose first cell does not
\* contain "total", whose description is non-empty and whose line total or
\* quantity parses; a cell that does not parse or is missing leaves its
\* sub-field absent; the items of the text fallback are returned only when
\* the tables yield no item.
C25_TableStrategyRowByRow ==
    (LineItemsDone /\ ~LineItemsRaise(pdf_dir[1])) =>
        LET pages == pdf_dir[1].pages
            items == ItemsOfTables(TablesOfPages(pages))
        IN IF items # << >>
           THEN Val(extracted) = items
           ELSE Val(extracted) \in {<< >>, text_items(pages)}

====
